---------------------------- MODULE Spec2Model ----------------------------
(***************************************************************************)
(* A model of the Pinterest bridge server (src/server.js) and of the pin   *)
(* pipeline it calls (src/pinterest-poster.js).                            *)
(*                                                                         *)
(* JavaScript strings are TLA+ strings (TLC evaluates Len, \o, SubSeq,     *)
(* Head and Tail on them).  Every other JavaScript value a handler can     *)
(* meet in a query or a JSON body is a record [t, v]: t is the shape       *)
(* ("undef", "str", "arr", "obj", "bool", "null") and v a string.          *)
(***************************************************************************)
EXTENDS Integers, Sequences, FiniteSets, TLC

(***************************************************************************)
(* Strings                                                                 *)
(***************************************************************************)

\* The alphabet of the model: the printable ASCII characters, from code 32 to
\* code 95 and from code 97 to code 126 (a TLA+ string cannot hold code 96).
AsciiLow == " !\"#$%&'()*+,-./0123456789:;<=>?@ABCDEFGHIJKLMNOPQRSTUVWXYZ[\\]^_"
AsciiHigh == "abcdefghijklmnopqrstuvwxyz{|}~"

CharAt(s, i) == SubSeq(s, i, i)

\* The code of every character of the alphabet.
CodeTable ==
  [c \in {CharAt(AsciiLow, i) : i \in 1..Len(AsciiLow)}
          \cup {CharAt(AsciiHigh, i) : i \in 1..Len(AsciiHigh)} |->
     IF \E i \in 1..Len(AsciiLow) : CharAt(AsciiLow, i) = c
     THEN 31 + (CHOOSE i \in 1..Len(AsciiLow) : CharAt(AsciiLow, i) = c)
     ELSE 96 + (CHOOSE i \in 1..Len(AsciiHigh) : CharAt(AsciiHigh, i) = c)]

\* String.prototype.charCodeAt for a one-character string of the alphabet.
Code(c) == CodeTable[c]

\* Buffer.prototype.toString for one byte; a byte outside the alphabet (what a
\* corrupted buffer decodes to) is shown as the two characters "\\?".
Char(n) ==
  IF n >= 32 /\ n <= 95 THEN CharAt(AsciiLow, n - 31)
  ELSE IF n >= 97 /\ n <= 126 THEN CharAt(AsciiHigh, n - 96)
  ELSE "\\?"

\* String.prototype.startsWith
StartsWith(s, p) == Len(s) >= Len(p) /\ SubSeq(s, 1, Len(p)) = p

\* String.prototype.includes
Includes(s, p) == \E i \in 1..(Len(s) - Len(p) + 1) : SubSeq(s, i, i + Len(p) - 1) = p

RECURSIVE TrimStart(_)
TrimStart(s) == IF Len(s) > 0 /\ Head(s) = " " THEN TrimStart(Tail(s)) ELSE s

RECURSIVE TrimEnd(_)
TrimEnd(s) ==
  IF Len(s) > 0 /\ CharAt(s, Len(s)) = " " THEN TrimEnd(SubSeq(s, 1, Len(s) - 1)) ELSE s

\* String.prototype.trim (the only white space of the alphabet is the space)
Trim(s) == TrimEnd(TrimStart(s))

\* The concatenation f[lo] \o ... \o f[hi] of the strings of a sequence f
\* (Array.prototype.join(''), halving the range to keep the evaluation shallow).
RECURSIVE Join(_, _, _)
Join(f, lo, hi) ==
  IF lo > hi THEN ""
  ELSE IF lo = hi THEN f[lo]
  ELSE LET mid == (lo + hi) \div 2 IN Join(f, lo, mid) \o Join(f, mid + 1, hi)

\* F(v) for the value v of e, which is evaluated once.
With(F(_), e) == CHOOSE r \in {F(v) : v \in {e}} : TRUE

\* The least element of a non-empty set of integers
Min(S) == CHOOSE i \in S : \A j \in S : i <= j

\* The greatest element of a non-empty set of integers
Max(S) == CHOOSE i \in S : \A j \in S : i >= j

(***************************************************************************)
(* JavaScript values                                                       *)
(***************************************************************************)

Undef == [t |-> "undef", v |-> ""]
Str(s) == [t |-> "str", v |-> s]
Arr(s) == [t |-> "arr", v |-> s]    \* v: the elements, joined with ","
Obj == [t |-> "obj", v |-> ""]
JBool(b) == [t |-> "bool", v |-> IF b THEN "true" ELSE "false"]
JNull == [t |-> "null", v |-> ""]

\* ToBoolean: what `if (x)`, `!x` and `x || y` test.
Truthy(x) ==
  CASE x.t = "str" -> x.v # ""
    [] x.t = "bool" -> x.v = "true"
    [] x.t = "num" -> x.v # "0"
    [] x.t \in {"undef", "null"} -> FALSE
    [] OTHER -> TRUE

(***************************************************************************)
(* Buffer and base64 (Node.js): Buffer.from(s).toString('base64') and      *)
(* Buffer.from(s, 'base64')                                                *)
(***************************************************************************)

B64Chars == "ABCDEFGHIJKLMNOPQRSTUVWXYZabcdefghijklmnopqrstuvwxyz0123456789+/"

\* Buffer.from(string): the UTF-8 bytes (one per character in this alphabet).
Utf8Bytes(s) == [i \in 1..Len(s) |-> Code(CharAt(s, i))]

Sextet(n) == CharAt(B64Chars, n + 1)

\* Buffer.prototype.toString('base64'): three bytes give four characters, the
\* last group padded with "=".
B64Encode(b) ==
  LET n == Len(b)
      byte(i) == IF i <= n THEN b[i] ELSE 0
      piece(j) ==
        LET g == 3 * ((j - 1) \div 4)
            k == (j - 1) % 4
        IN CASE k = 0 -> Sextet(byte(g + 1) \div 4)
             [] k = 1 -> Sextet((byte(g + 1) % 4) * 16 + byte(g + 2) \div 16)
             [] k = 2 -> IF g + 2 > n THEN "="
                         ELSE Sextet((byte(g + 2) % 16) * 4 + byte(g + 3) \div 64)
             [] k = 3 -> IF g + 3 > n THEN "=" ELSE Sextet(byte(g + 3) % 64)
      m == 4 * ((n + 2) \div 3)
  IN Join([j \in 1..m |-> piece(j)], 1, m)

\* The value of every base64 character, the URL-safe - and _ included.
B64Table ==
  [c \in {CharAt(B64Chars, i) : i \in 1..64} \cup {"-", "_"} |->
     IF c = "-" THEN 62 ELSE IF c = "_" THEN 63
     ELSE (CHOOSE i \in 1..64 : CharAt(B64Chars, i) = c) - 1]

\* unbase64: the value of a base64 character, 64 for any other character.
UnBase64(c) == IF c \in DOMAIN B64Table THEN B64Table[c] ELSE 64

IsLegalSextet(v) == v < 64

\* The legal sextets of s in order: an illegal character (white space too) is
\* skipped, and decoding stops at the first "=".
B64Sextets(s) ==
  LET pads == {i \in 1..Len(s) : CharAt(s, i) = "="}
      n == IF pads = {} THEN Len(s) ELSE Min(pads) - 1
  IN SelectSeq([i \in 1..n |-> UnBase64(CharAt(s, i))], IsLegalSextet)

\* Four sextets give three bytes; a last group of two or three sextets gives
\* one or two bytes, and a lone last sextet none.
SextetsToBytes(x) ==
  LET n == Len(x)
      m == 3 * (n \div 4) + (IF n % 4 = 2 THEN 1 ELSE IF n % 4 = 3 THEN 2 ELSE 0)
      byte(k) ==
        LET g == 4 * ((k - 1) \div 3)
            p == (k - 1) % 3
        IN CASE p = 0 -> x[g + 1] * 4 + x[g + 2] \div 16
             [] p = 1 -> (x[g + 2] % 16) * 16 + x[g + 3] \div 4
             [] p = 2 -> (x[g + 3] % 4) * 64 + x[g + 4]
  IN [k \in 1..m |-> byte(k)]

\* Buffer.from(s, 'base64') for a string s
B64Decode(s) == SextetsToBytes(B64Sextets(s))

(***************************************************************************)
(* JSON: JSON.stringify of the state object and JSON.parse of the decoded  *)
(* buffer.  The parser reads the bytes of the buffer: objects whose values *)
(* are strings, non-negative integers, true, false, null or non-empty      *)
(* arrays of strings, and those values on their own.  It accepts no white  *)
(* space between tokens and no nested object.                              *)
(***************************************************************************)

\* JSON.stringify of a string of the alphabet: quoted, with " and \ escaped.
JSONEscape(s) ==
  Join([i \in 1..Len(s) |->
          IF CharAt(s, i) = "\"" THEN "\\\""
          ELSE IF CharAt(s, i) = "\\" THEN "\\\\"
          ELSE CharAt(s, i)], 1, Len(s))

JSONString(s) == "\"" \o JSONEscape(s) \o "\""

\* JSON.stringify({client_id, client_secret, sandbox})
StateJSON(id, secret, sandbox) ==
  "{\"client_id\":" \o JSONString(id) \o ",\"client_secret\":" \o JSONString(secret)
    \o ",\"sandbox\":" \o (IF sandbox THEN "true" ELSE "false") \o "}"

JNum(digits) == [t |-> "num", v |-> digits]
JObject(f) == [t |-> "object", v |-> "", f |-> f]
ParseFail == [ok |-> FALSE]

HexDigit(n) == (n >= 48 /\ n <= 57) \/ (n >= 65 /\ n <= 70) \/ (n >= 97 /\ n <= 102)

\* The string literal whose opening quote is at b[i - 1]; acc is what was read.
RECURSIVE ParseStr(_, _, _)
ParseStr(b, i, acc) ==
  IF i > Len(b) THEN ParseFail
  ELSE IF b[i] = 34 THEN [ok |-> TRUE, val |-> Str(acc), next |-> i + 1]
  ELSE IF b[i] = 92 THEN
    IF i + 1 > Len(b) THEN ParseFail
    ELSE IF b[i + 1] \in {34, 92, 47} THEN ParseStr(b, i + 2, acc \o Char(b[i + 1]))
    ELSE IF b[i + 1] \in {98, 102, 110, 114, 116} THEN ParseStr(b, i + 2, acc \o Char(0))
    ELSE IF b[i + 1] = 117 /\ i + 5 <= Len(b) /\ \A k \in 2..5 : HexDigit(b[i + k])
      THEN ParseStr(b, i + 6, acc \o Char(0))
    ELSE ParseFail
  ELSE IF b[i] < 32 THEN ParseFail
  ELSE ParseStr(b, i + 1, acc \o Char(b[i]))

RECURSIVE ParseDigits(_, _, _)
ParseDigits(b, i, acc) ==
  IF i <= Len(b) /\ b[i] >= 48 /\ b[i] <= 57 THEN ParseDigits(b, i + 1, acc \o Char(b[i]))
  ELSE [ok |-> TRUE, val |-> JNum(acc), next |-> i]

IsAt(b, i, word) ==
  i + Len(word) - 1 <= Len(b) /\ SubSeq(b, i, i + Len(word) - 1) = Utf8Bytes(word)

\* The elements of an array of strings from b[i] on; acc joins with "," those
\* read before (first: none was).
RECURSIVE ParseElements(_, _, _, _)
ParseElements(b, i, acc, first) ==
  IF i > Len(b) \/ b[i] # 34 THEN ParseFail
  ELSE With(LAMBDA e :
    IF ~e.ok \/ e.next > Len(b) THEN ParseFail
    ELSE With(LAMBDA a :
      IF b[e.next] = 93 THEN [ok |-> TRUE, val |-> Arr(a), next |-> e.next + 1]
      ELSE IF b[e.next] = 44 THEN ParseElements(b, e.next + 1, a, FALSE)
      ELSE ParseFail,
      IF first THEN e.val.v ELSE acc \o "," \o e.val.v),
    ParseStr(b, i + 1, ""))

\* A value that is no object, starting at b[i].
ParseScalar(b, i) ==
  IF i > Len(b) THEN ParseFail
  ELSE IF b[i] = 34 THEN ParseStr(b, i + 1, "")
  ELSE IF b[i] = 91 THEN ParseElements(b, i + 1, "", TRUE)
  ELSE IF IsAt(b, i, "true") THEN [ok |-> TRUE, val |-> JBool(TRUE), next |-> i + 4]
  ELSE IF IsAt(b, i, "false") THEN [ok |-> TRUE, val |-> JBool(FALSE), next |-> i + 5]
  ELSE IF IsAt(b, i, "null") THEN [ok |-> TRUE, val |-> JNull, next |-> i + 4]
  ELSE IF b[i] >= 49 /\ b[i] <= 57 THEN ParseDigits(b, i, "")
  ELSE IF b[i] = 48 THEN [ok |-> TRUE, val |-> JNum("0"), next |-> i + 1]
  ELSE ParseFail

\* The members of an object from b[i] on, a key expected at b[i]; a repeated
\* key keeps its last value.
RECURSIVE ParseMembers(_, _, _)
ParseMembers(b, i, acc) ==
  IF i > Len(b) \/ b[i] # 34 THEN ParseFail
  ELSE With(LAMBDA k :
    IF ~k.ok \/ k.next > Len(b) \/ b[k.next] # 58 THEN ParseFail
    ELSE With(LAMBDA e :
      IF ~e.ok \/ e.next > Len(b) THEN ParseFail
      ELSE With(LAMBDA f :
        IF b[e.next] = 125 THEN [ok |-> TRUE, val |-> JObject(f), next |-> e.next + 1]
        ELSE IF b[e.next] = 44 THEN ParseMembers(b, e.next + 1, f)
        ELSE ParseFail,
        [n \in DOMAIN acc \cup {k.val.v} |-> IF n = k.val.v THEN e.val ELSE acc[n]]),
      ParseScalar(b, k.next + 1)),
    ParseStr(b, i + 1, ""))

EmptyFields == [n \in {} |-> Undef]

\* JSON.parse(buffer.toString()): [ok |-> FALSE] is the SyntaxError.
JSONParse(b) ==
  With(LAMBDA r : IF r.ok /\ r.next = Len(b) + 1 THEN [ok |-> TRUE, val |-> r.val]
                  ELSE ParseFail,
       IF Len(b) >= 2 /\ b[1] = 123
       THEN IF b[2] = 125
            THEN [ok |-> TRUE, val |-> JObject(EmptyFields), next |-> 3]
            ELSE ParseMembers(b, 2, EmptyFields)
       ELSE ParseScalar(b, 1))

\* x.name for a value x that is neither undefined nor null
Get(x, name) == IF x.t = "object" /\ name \in DOMAIN x.f THEN x.f[name] ELSE Undef

\* String(x), as a template literal and URLSearchParams convert a value
JSToString(x) ==
  CASE x.t = "undef" -> "undefined"
    [] x.t = "null" -> "null"
    [] x.t \in {"obj", "object"} -> "[object Object]"
    [] OTHER -> x.v

(***************************************************************************)
(* URLs: the authorization URL the server builds, and what comes back      *)
(***************************************************************************)

Unreserved == "ABCDEFGHIJKLMNOPQRSTUVWXYZabcdefghijklmnopqrstuvwxyz0123456789-_.!~*'()"
UnreservedSet == {CharAt(Unreserved, i) : i \in 1..Len(Unreserved)}
HexChars == "0123456789ABCDEF"

\* encodeURIComponent on a string of the alphabet
encodeURIComponent(s) ==
  Join([i \in 1..Len(s) |->
          IF CharAt(s, i) \in UnreservedSet THEN CharAt(s, i)
          ELSE "%" \o CharAt(HexChars, Code(CharAt(s, i)) \div 16 + 1)
                   \o CharAt(HexChars, (Code(CharAt(s, i)) % 16) + 1)], 1, Len(s))

HexValue(c) == (CHOOSE i \in 1..16 : CharAt(HexChars, i) = c) - 1
IsHex(c) == \E i \in 1..16 : CharAt(HexChars, i) = c

\* The value of a query parameter as a server reads it from a URL
\* (application/x-www-form-urlencoded): "+" is a space, %XX is the byte XX.
FormDecode(s) ==
  LET n == Len(s)
      escapeAt(i) == /\ i >= 1 /\ i + 2 <= n /\ CharAt(s, i) = "%"
                     /\ IsHex(CharAt(s, i + 1)) /\ IsHex(CharAt(s, i + 2))
      piece(i) ==
        IF escapeAt(i)
        THEN Char(HexValue(CharAt(s, i + 1)) * 16 + HexValue(CharAt(s, i + 2)))
        ELSE IF escapeAt(i - 1) \/ escapeAt(i - 2) THEN ""
        ELSE IF CharAt(s, i) = "+" THEN " "
        ELSE CharAt(s, i)
  IN Join([i \in 1..n |-> piece(i)], 1, n)

\* The text of s up to the first "&" (all of s when it holds none)
UpToAmp(s) ==
  LET amps == {i \in 1..Len(s) : CharAt(s, i) = "&"}
  IN IF amps = {} THEN s ELSE SubSeq(s, 1, Min(amps) - 1)

\* The raw text of parameter `name` in the query of url ("" when it has none)
RawParam(url, name) ==
  LET key == name \o "="
      at == {i \in 1..Len(url) : /\ i + Len(key) - 1 <= Len(url)
                                 /\ SubSeq(url, i, i + Len(key) - 1) = key
                                 /\ i > 1 /\ CharAt(url, i - 1) \in {"?", "&"}}
  IN IF at = {} THEN ""
     ELSE UpToAmp(SubSeq(url, Min(at) + Len(key), Len(url)))

\* req.query.<name> of the request the browser makes for url
QueryParam(url, name) == FormDecode(RawParam(url, name))

\* String.prototype.split(',')
SplitComma(s) ==
  LET n == Len(s)
      commas == {i \in 1..n : CharAt(s, i) = ","}
      starts == {1} \cup {i + 1 : i \in commas}
      stop(i) == IF \E j \in commas : j >= i
                 THEN Min({j \in commas : j >= i}) - 1 ELSE n
      nth(k) == CHOOSE i \in starts : Cardinality({j \in starts : j < i}) = k - 1
  IN [k \in 1..Cardinality(starts) |-> SubSeq(s, nth(k), stop(nth(k)))]

\* An array is the record Arr(v), v its elements joined by "," (String(array)).
Elements(a) == SplitComma(a.v)

RECURSIVE DecimalValue(_)
DecimalValue(s) ==
  IF Len(s) = 0 THEN 0
  ELSE 10 * DecimalValue(SubSeq(s, 1, Len(s) - 1)) + (Code(CharAt(s, Len(s))) - 48)

IsDecimal(s) ==
  Len(s) > 0 /\ \A i \in 1..Len(s) : CharAt(s, i) \in {CharAt("0123456789", k) : k \in 1..10}

\* Buffer.from(array): every element as a number modulo 256, 0 when it is none
ArrayBytes(a) ==
  LET e == Elements(a)
  IN [i \in 1..Len(e) |-> IF IsDecimal(e[i]) THEN DecimalValue(e[i]) % 256 ELSE 0]

\* JSON.stringify of a value the parser yields (the members of an object in
\* an order of the model's choosing, where JavaScript keeps insertion order)
JSONScalar(x) == IF x.t = "str" THEN JSONString(x.v) ELSE JSToString(x)

RECURSIVE JSONMembers(_, _)
JSONMembers(f, keys) ==
  IF keys = {} THEN ""
  ELSE LET k == CHOOSE n \in keys : TRUE
       IN JSONString(k) \o ":" \o JSONScalar(f[k])
            \o (IF keys = {k} THEN "" ELSE "," \o JSONMembers(f, keys \ {k}))

JSONStringify(x) ==
  IF x.t = "object" THEN "{" \o JSONMembers(x.f, DOMAIN x.f) \o "}" ELSE JSONScalar(x)

(***************************************************************************)
(* The server's state                                                      *)
(***************************************************************************)

VARIABLES
  env,     \* process.env: the process-wide runtime configuration
  req,     \* the request each slot holds: its route, its query or body, where
           \* its handler stands (pc) and the handler's local variables
  out,     \* per request, the outbound HTTP calls its handler has made
  res,     \* per request, the responses its handler has sent
  thrown,  \* per request, the exception that escaped its handler ("" if none)
  lastSet, \* history: the request whose setupEnv last set the access token and
           \* the board id of process.env (0: none has)
  files,   \* the output directory: file name -> content
  now,     \* Date.now()
  probe    \* the input and the result of a pure function under test

vars == <<env, lastSet, req, out, res, thrown, files, now, probe>>

\* The number of requests the model admits, all of which may be in flight
\* together.
NReq == 2
Slots == 1..NReq

NoRecord == [none |-> TRUE]
Idle == [route |-> "none", pc |-> "idle", q |-> NoRecord, loc |-> NoRecord, flow |-> 0]

\* What a handler's run up to its next await (or its end) comes to.
Throw(e) == [kind |-> "throw", error |-> e]
Send(status, page, body) ==
  [kind |-> "send", response |-> [status |-> status, page |-> page, body |-> body]]
Call(c, loc) == [kind |-> "call", call |-> c, loc |-> loc]

\* The reply of a call that has not been answered yet.
Pending == [pending |-> TRUE]

\* The calls made, the reply to the last call of request r recorded with it.
Answered(r, reply) == [out EXCEPT ![r][Len(out[r])].reply = reply]

\* A request as Express hands it to its route: the handler runs at once, up to
\* its first await.
Arrived(route, q, flow) ==
  [route |-> route, pc |-> "idle", q |-> q, loc |-> NoRecord, flow |-> flow]

\* Whether Express answers an exception that escapes the handler of a route
\* (with status 500): it does for a synchronous handler; for the rejection of
\* an async handler Express 5 does and Express 4 does not.
Answers(route) == IF route = "/auth/pinterest" THEN {TRUE} ELSE {TRUE, FALSE}

\* The effect of a handler's run o on the request in slot r, which was `was`
\* and began with `calls` made; `await` is where the handler stands after a
\* call.
Step(r, was, o, calls, await) ==
  /\ req' = [req EXCEPT ![r] =
       [was EXCEPT
          !.pc = CASE o.kind = "call" -> await
                   [] o.kind = "throw" -> "crashed"
                   [] OTHER -> "done",
          !.loc = IF o.kind = "call" THEN o.loc ELSE @]]
  /\ out' = IF o.kind = "call" THEN [calls EXCEPT ![r] = Append(@, o.call)] ELSE calls
  /\ thrown' = IF o.kind = "throw" THEN [thrown EXCEPT ![r] = o.error] ELSE thrown
  /\ \E answered \in (IF o.kind = "throw" THEN Answers(was.route) ELSE {FALSE}) :
       res' = CASE o.kind = "send" -> [res EXCEPT ![r] = Append(@, o.response)]
                [] answered -> [res EXCEPT ![r] = Append(@, [status |-> 500,
                                                              page |-> "unhandled",
                                                              body |-> NoRecord])]
                [] OTHER -> res

(***************************************************************************)
(* GET /auth/pinterest                                                     *)
(***************************************************************************)

scopes == "boards:read,boards:write,pins:read,pins:write,user_accounts:read"

\* `${protocol}://${host}/callback` of the request with headers h
redirectUri(h) ==
  (IF Truthy(h.proto) THEN JSToString(h.proto) ELSE "http") \o "://" \o h.host \o "/callback"

\* Buffer.from(JSON.stringify({client_id, client_secret, sandbox})).toString('base64')
stateData(cleanId, cleanSecret, sandbox) ==
  B64Encode(Utf8Bytes(StateJSON(cleanId, cleanSecret, sandbox)))

authUrl(cleanId, redirect_uri, state) ==
  "https://www.pinterest.com/oauth/?client_id=" \o cleanId
    \o "&redirect_uri=" \o encodeURIComponent(redirect_uri)
    \o "&response_type=code&scope=" \o scopes \o "&state=" \o state

\* The handler: (x || '').trim() is a TypeError on an array or an object.
authPinterest(q) ==
  LET id == IF Truthy(q.client_id) THEN q.client_id ELSE Str("")
      secret == IF Truthy(q.client_secret) THEN q.client_secret ELSE Str("")
  IN IF id.t # "str" \/ secret.t # "str" THEN Throw("TypeError")
     ELSE LET cleanId == Trim(id.v)
              cleanSecret == Trim(secret.v)
          IN IF cleanId = "" \/ cleanSecret = ""
             THEN Send(400, "configError", NoRecord)
             ELSE Send(302, "redirect",
                       [url |-> authUrl(cleanId, redirectUri(q),
                                        stateData(cleanId, cleanSecret,
                                                  q.sandbox = Str("true")))])

HandleAuth(r, q) ==
  /\ req[r].pc = "idle"
  /\ Step(r, Arrived("/auth/pinterest", q, 0), authPinterest(q), out, "none")
  /\ UNCHANGED <<env, lastSet, files, now, probe>>

(***************************************************************************)
(* GET /callback                                                           *)
(***************************************************************************)

\* The hints of the authorization-error page.
authErrorHints(error) ==
  IF error = Str("access_denied") THEN "denied"
  ELSE IF error = Str("invalid_request") \/ error = Str("invalid_client") THEN "appId"
  ELSE IF (error.t = "str" /\ Includes(error.v, "redirect_uri"))
          \/ (error.t = "arr" /\ \E i \in DOMAIN Elements(error) :
                                    Elements(error)[i] = "redirect_uri")
    THEN "redirectUri"
  ELSE "settings"

\* Whether the state yields credentials: a state that is missing, cannot be
\* decoded or parsed, or lacks a credential, is the error the catch block turns
\* into the session-error page.
\* A check that asks for the client_id alone.
hasCredentialsIdOnly(decodedState) == Truthy(Get(decodedState, "client_id"))

hasCredentials(decodedState) ==
  Truthy(Get(decodedState, "client_id")) /\ Truthy(Get(decodedState, "client_secret"))

decodeState(state) ==
  IF ~Truthy(state) THEN [ok |-> FALSE, message |-> "Missing state parameter"]
  ELSE IF state.t = "obj" THEN [ok |-> FALSE, message |-> "TypeError"]
  ELSE With(LAMBDA parsed :
         IF ~parsed.ok THEN [ok |-> FALSE, message |-> "SyntaxError"]
         ELSE IF parsed.val.t = "null" THEN [ok |-> FALSE, message |-> "TypeError"]
         ELSE IF ~hasCredentials(parsed.val)
           THEN [ok |-> FALSE, message |-> "State missing credentials"]
         ELSE [ok |-> TRUE,
               client_id |-> Get(parsed.val, "client_id"),
               client_secret |-> Get(parsed.val, "client_secret"),
               sandbox |-> Get(parsed.val, "sandbox")],
         JSONParse(With(LAMBDA s : IF s.t = "arr" THEN ArrayBytes(s) ELSE B64Decode(s.v),
                        state)))

\* A credential with the secret and the id in each other's place.
basicAuthSwapped(client_id, client_secret) ==
  B64Encode(Utf8Bytes(JSToString(client_secret) \o ":" \o JSToString(client_id)))

\* Buffer.from(`${client_id}:${client_secret}`).toString('base64')
basicAuth(client_id, client_secret) ==
  B64Encode(Utf8Bytes(JSToString(client_id) \o ":" \o JSToString(client_secret)))

\* A token request that names the callback URL of the deployed application.
tokenRequestDeployed(q, client_id, client_secret) ==
  [api |-> "POST https://api.pinterest.com/v5/oauth/token",
   grant_type |-> "authorization_code",
   code |-> JSToString(q.code),
   redirect_uri |-> "https://pin-cover-auto.vercel.app/callback",
   authorization |-> "Basic " \o basicAuth(client_id, client_secret),
   reply |-> Pending]

tokenRequest(q, client_id, client_secret) ==
  [api |-> "POST https://api.pinterest.com/v5/oauth/token",
   grant_type |-> "authorization_code",
   code |-> JSToString(q.code),
   redirect_uri |-> redirectUri(q),
   authorization |-> "Basic " \o basicAuth(client_id, client_secret),
   reply |-> Pending]

\* The handler up to the token request: error.includes is a TypeError when
\* `error` is an object.
callback(q) ==
  IF Truthy(q.error) THEN
    IF q.error.t = "obj" THEN Throw("TypeError")
    ELSE Send(400, "authError",
              [error |-> JSToString(q.error),
               description |-> JSToString(IF Truthy(q.error_description)
                                          THEN q.error_description ELSE q.error),
               hints |-> authErrorHints(q.error)])
  ELSE IF ~Truthy(q.code) THEN Send(400, "noCode", NoRecord)
  ELSE With(LAMBDA d :
         IF ~d.ok THEN Send(400, "sessionError", [message |-> d.message])
         ELSE Call(tokenRequest(q, d.client_id, d.client_secret),
                   [client_id |-> d.client_id, client_secret |-> d.client_secret,
                    sandbox |-> d.sandbox]),
         decodeState(q.state))

HandleCallback(r, q, flow) ==
  /\ req[r].pc = "idle"
  /\ Step(r, Arrived("/callback", q, flow), callback(q), out, "awaitToken")
  /\ UNCHANGED <<env, lastSet, files, now, probe>>

\* The hints of the token-exchange failure page, in the order they are pushed.
tokenErrorHints(statusCode, detail) ==
  LET h1 == IF statusCode = 401 \/ Includes(detail, "invalid_client")
            THEN <<"credentials">> ELSE <<>>
      h2 == IF Includes(detail, "redirect_uri") THEN <<"redirectUri">> ELSE <<>>
  IN IF h1 \o h2 = <<>> THEN <<"generic">> ELSE h1 \o h2

\* The handler from the token endpoint's reply on: detail.includes is a
\* TypeError when detail, a string or a number here, is no string.
callbackReply(reply) ==
  IF reply.ok
  THEN Send(200, "success",
            [type |-> "PINTEREST_TOKEN",
             token |-> JSToString(Get(reply.data, "access_token"))])
  ELSE LET errorData == IF reply.response /\ Truthy(reply.data)
                        THEN reply.data ELSE JObject(EmptyFields)
           statusCode == IF reply.response /\ reply.status # 0 THEN reply.status ELSE 500
           detail == IF errorData.t = "str" THEN errorData
                     ELSE IF Truthy(Get(errorData, "error_description"))
                       THEN Get(errorData, "error_description")
                     ELSE IF Truthy(Get(errorData, "message"))
                       THEN Get(errorData, "message")
                     ELSE Str(JSONStringify(errorData))
       IN IF detail.t # "str" THEN Throw("TypeError")
          ELSE Send(statusCode, "tokenError",
                    [detail |-> detail.v, hints |-> tokenErrorHints(statusCode, detail.v)])

TokenReply(r, reply) ==
  /\ req[r].route = "/callback" /\ req[r].pc = "awaitToken"
  /\ Step(r, req[r], callbackReply(reply), Answered(r, reply), "none")
  /\ UNCHANGED <<env, lastSet, files, now, probe>>

(***************************************************************************)
(* setupEnv and getConfig                                                  *)
(***************************************************************************)

UnsetEnv ==
  [OPENROUTER_API_KEY |-> Undef, PINTEREST_ACCESS_TOKEN |-> Undef,
   PINTEREST_BOARD_ID |-> Undef, WEBSITE_URL |-> Undef, OPENROUTER_MODEL |-> Undef,
   PINTEREST_APP_ID |-> Undef, PINTEREST_APP_SECRET |-> Undef,
   PINTEREST_SANDBOX |-> Undef]

\* A setupEnv that leaves alone every variable that is set already.
setupEnvOnce(e, data) ==
  IF ~Truthy(data) THEN e
  ELSE LET set(old, name) == IF ~Truthy(old) /\ Truthy(Get(data, name))
                             THEN Str(JSToString(Get(data, name))) ELSE old
           sandboxValue == Get(data, "pinterest_sandbox")
       IN [OPENROUTER_API_KEY |-> set(e.OPENROUTER_API_KEY, "openrouter_key"),
           PINTEREST_ACCESS_TOKEN |-> set(e.PINTEREST_ACCESS_TOKEN, "pinterest_token"),
           PINTEREST_BOARD_ID |-> set(e.PINTEREST_BOARD_ID, "pinterest_board"),
           WEBSITE_URL |-> set(e.WEBSITE_URL, "website_url"),
           OPENROUTER_MODEL |-> set(e.OPENROUTER_MODEL, "openrouter_model"),
           PINTEREST_APP_ID |-> set(e.PINTEREST_APP_ID, "pinterest_app_id"),
           PINTEREST_APP_SECRET |-> set(e.PINTEREST_APP_SECRET, "pinterest_app_secret"),
           PINTEREST_SANDBOX |->
             Str(IF sandboxValue = JBool(TRUE) \/ sandboxValue = Str("true")
                 THEN "true" ELSE "false")]

\* A setupEnv that assigns every variable, whether the config names it or not.
setupEnvAssignAll(e, data) ==
  IF ~Truthy(data) THEN e
  ELSE LET set(name) == Str(JSToString(Get(data, name)))
           sandboxValue == Get(data, "pinterest_sandbox")
       IN [OPENROUTER_API_KEY |-> set("openrouter_key"),
           PINTEREST_ACCESS_TOKEN |-> set("pinterest_token"),
           PINTEREST_BOARD_ID |-> set("pinterest_board"),
           WEBSITE_URL |-> set("website_url"),
           OPENROUTER_MODEL |-> set("openrouter_model"),
           PINTEREST_APP_ID |-> set("pinterest_app_id"),
           PINTEREST_APP_SECRET |-> set("pinterest_app_secret"),
           PINTEREST_SANDBOX |->
             Str(IF sandboxValue = JBool(TRUE) \/ sandboxValue = Str("true")
                 THEN "true" ELSE "false")]

\* process.env after setupEnv(data) ran on the process.env e: an assignment to
\* process.env stores String(value).
setupEnv(e, data) ==
  IF ~Truthy(data) THEN e
  ELSE LET set(old, name) == IF Truthy(Get(data, name))
                             THEN Str(JSToString(Get(data, name))) ELSE old
           sandboxValue == Get(data, "pinterest_sandbox")
       IN [OPENROUTER_API_KEY |-> set(e.OPENROUTER_API_KEY, "openrouter_key"),
           PINTEREST_ACCESS_TOKEN |-> set(e.PINTEREST_ACCESS_TOKEN, "pinterest_token"),
           PINTEREST_BOARD_ID |-> set(e.PINTEREST_BOARD_ID, "pinterest_board"),
           WEBSITE_URL |-> set(e.WEBSITE_URL, "website_url"),
           OPENROUTER_MODEL |-> set(e.OPENROUTER_MODEL, "openrouter_model"),
           PINTEREST_APP_ID |-> set(e.PINTEREST_APP_ID, "pinterest_app_id"),
           PINTEREST_APP_SECRET |-> set(e.PINTEREST_APP_SECRET, "pinterest_app_secret"),
           PINTEREST_SANDBOX |->
             Str(IF sandboxValue = JBool(TRUE) \/ sandboxValue = Str("true")
                 THEN "true" ELSE "false")]

\* Which request last set the token and the board id, after request r ran
\* setupEnv(data).
SetBy(r, data) ==
  [token |-> IF Truthy(data) /\ Truthy(Get(data, "pinterest_token"))
             THEN r ELSE lastSet.token,
   board |-> IF Truthy(data) /\ Truthy(Get(data, "pinterest_board"))
             THEN r ELSE lastSet.board]

\* getConfig() read while process.env is e
getConfig(e) ==
  [openrouterApiKey |-> e.OPENROUTER_API_KEY,
   openrouterModel |-> IF Truthy(e.OPENROUTER_MODEL) THEN e.OPENROUTER_MODEL
                       ELSE Str("google/gemini-2.0-flash-001"),
   pinterestAccessToken |-> e.PINTEREST_ACCESS_TOKEN,
   pinterestBoardId |-> e.PINTEREST_BOARD_ID,
   websiteUrl |-> IF Truthy(e.WEBSITE_URL) THEN e.WEBSITE_URL
                  ELSE Str("www.omarecipes.com")]

(***************************************************************************)
(* generatePinContent and createPin                                        *)
(***************************************************************************)

\* The request generatePinContent(topic, language) posts while process.env is e.
generateRequest(topic, language, e) ==
  LET config == getConfig(e)
  IN [api |-> "POST https://openrouter.ai/api/v1/chat/completions",
      model |-> config.openrouterModel.v,
      topic |-> JSToString(topic),
      language |-> IF language = Str("ar") THEN "Arabic"
                   ELSE IF language = Str("fr") THEN "French" ELSE "English",
      link |-> config.websiteUrl.v,
      authorization |-> "Bearer " \o JSToString(config.openrouterApiKey),
      referer |-> IF StartsWith(config.websiteUrl.v, "http") THEN config.websiteUrl.v
                  ELSE "https://" \o config.websiteUrl.v,
      reply |-> Pending, setBy |-> Pending]

\* A generatePinContent that makes up for a failed request with stock content.
generatePinContentStock(reply) ==
  [ok |-> TRUE,
   val |-> JObject([title |-> Str("Recipe"), description |-> Str("Recipe"),
                    hashtags |-> Arr("recipe"), altText |-> Str("Recipe")])]

\* What generatePinContent comes to on the reply: the object parsed from the
\* first "{" to the last "}" of the content, or the Error it throws.
generatePinContent(reply) ==
  IF reply.ok THEN
    IF reply.content.t # "str" THEN [ok |-> FALSE, message |-> "TypeError"]
    ELSE LET s == reply.content.v
             opens == {i \in 1..Len(s) : CharAt(s, i) = "{"}
             closes == {i \in 1..Len(s) : CharAt(s, i) = "}"}
         IN IF opens = {} \/ closes = {} \/ Min(opens) > Max(closes)
            THEN [ok |-> FALSE, message |-> "Invalid JSON response from OpenRouter"]
            ELSE LET p == JSONParse(Utf8Bytes(SubSeq(s, Min(opens), Max(closes))))
                 IN IF p.ok THEN [ok |-> TRUE, val |-> p.val]
                    ELSE [ok |-> FALSE, message |-> "SyntaxError"]
  ELSE LET m == Get(Get(reply.data, "error"), "message")
       IN [ok |-> FALSE,
           message |-> IF reply.response /\ Truthy(m) THEN JSToString(m)
                       ELSE reply.message]

\* A join that sets the hashtags apart with a comma and a space.
fullDescriptionCommas(description, hashtags) ==
  JSToString(description) \o "\n\n"
    \o Join([i \in 1..Len(hashtags) |->
               (IF i = 1 THEN "" ELSE ", ") \o "#" \o hashtags[i]], 1, Len(hashtags))

\* `${description}\n\n${hashtags.map(h => `#${h}`).join(' ')}`
fullDescription(description, hashtags) ==
  JSToString(description) \o "\n\n"
    \o Join([i \in 1..Len(hashtags) |->
               (IF i = 1 THEN "" ELSE " ") \o "#" \o hashtags[i]], 1, Len(hashtags))

\* createPin(pinData) while process.env is e and the output directory holds f:
\* the request it posts, or the error of readFileSync.
createPin(pinData, e, f) ==
  LET config == getConfig(e)
  IN IF pinData.imagePath \notin DOMAIN f THEN [ok |-> FALSE, message |-> "ENOENT"]
     ELSE [ok |-> TRUE,
           request |->
             [api |-> "POST https://api.pinterest.com/v5/pins",
              board_id |-> config.pinterestBoardId,
              title |-> pinData.title,
              description |-> fullDescription(pinData.description, pinData.hashtags),
              alt_text |-> pinData.altText,
              link |-> pinData.link,
              data |-> B64Encode(f[pinData.imagePath]),
              authorization |-> "Bearer " \o JSToString(config.pinterestAccessToken),
              reply |-> Pending, setBy |-> Pending]]

(***************************************************************************)
(* POST /api/post-pin and POST /api/generate-only                          *)
(***************************************************************************)

\* res.status(500).json({success: false, error})
jsonError(error) == Send(500, "json", [success |-> FALSE, error |-> error])

\* The decimal digits of a natural number
RECURSIVE Decimal(_)
Decimal(n) == IF n < 10 THEN Char(48 + n) ELSE Decimal(n \div 10) \o Char(48 + (n % 10))

\* The link of the pin (lines 324-330): websiteUrl.trim() is a TypeError when
\* websiteUrl is no string, finalLink.startsWith when the default is none.
finalLink(websiteUrl, config) ==
  IF websiteUrl.t # "str" THEN [ok |-> FALSE]
  ELSE LET trimmed == Trim(websiteUrl.v)
           link == IF trimmed = "" \/ trimmed = "https://" \/ trimmed = "http://"
                   THEN IF Truthy(Get(config, "website_url"))
                        THEN Get(config, "website_url")
                        ELSE Str("https://www.omarecipes.com")
                   ELSE Str(trimmed)
       IN IF link.t # "str" THEN [ok |-> FALSE]
          ELSE [ok |-> TRUE,
                link |-> IF StartsWith(link.v, "http") THEN link.v
                         ELSE "https://" \o link.v]

\* The handler from the link on (lines 324-340), with the locals loc, while
\* process.env is e and the output directory holds f.
postPinCreate(b, loc, e, f) ==
  LET l == finalLink(b.websiteUrl, b.config)
  IN IF ~l.ok \/ loc.finalHash.t \notin {"arr", "str"} THEN jsonError(Str("TypeError"))
     ELSE LET split == SplitComma(loc.finalHash.v)
              c == createPin([title |-> loc.finalTitle,
                              description |-> loc.finalDesc,
                              hashtags |-> IF loc.finalHash.t = "arr" THEN split
                                           ELSE [i \in 1..Len(split) |-> Trim(split[i])],
                              altText |-> loc.finalAlt,
                              imagePath |-> loc.imagePath,
                              link |-> l.link], e, f)
          IN IF c.ok THEN Call(c.request, loc) ELSE jsonError(Str(c.message))

\* A handler whose createPin reads the configuration as it was when the
\* request arrived, before the request's own setupEnv.
postPinBeforeMerge(b, e, f, t) ==
  LET e1 == setupEnv(e, b.config)
      token == e1.PINTEREST_ACCESS_TOKEN
      fail(m) == [o |-> jsonError(Str(m)), env |-> e1, files |-> f]
  IN IF ~Truthy(token) \/ token = Str("undefined")
       THEN fail("Pinterest Token is missing. Please connect first.")
     ELSE IF b.config.t \in {"undef", "null"} THEN fail("TypeError")
     ELSE IF ~Truthy(Get(b.config, "pinterest_board"))
       THEN fail("Pinterest Board ID is missing. Please enter it in Settings")
     ELSE IF b.imageData.t # "str" THEN fail("TypeError")
     ELSE
       LET prefix == "data:image/jpeg;base64,"
           base64Data == IF StartsWith(b.imageData.v, prefix)
                         THEN SubSeq(b.imageData.v, Len(prefix) + 1, Len(b.imageData.v))
                         ELSE b.imageData.v
           imagePath == "pin_" \o Decimal(t) \o ".jpg"
           f1 == [n \in DOMAIN f \cup {imagePath} |->
                    IF n = imagePath THEN B64Decode(base64Data) ELSE f[n]]
           loc == [imagePath |-> imagePath, finalTitle |-> b.title,
                   finalDesc |-> b.description, finalHash |-> b.hashtags,
                   finalAlt |-> b.altText]
           language == IF Truthy(Get(b.config, "language"))
                       THEN Get(b.config, "language") ELSE Str("en")
       IN [o |-> IF ~Truthy(b.description)
                 THEN Call(generateRequest(b.title, language, e1), loc)
                 ELSE postPinCreate(b, loc, e, f1),
           env |-> e1, files |-> f1]

\* The handler up to its first await (lines 288-322), at the time t, while
\* process.env is e and the output directory holds f: what it comes to, and
\* process.env and the directory after it.
postPin(b, e, f, t) ==
  LET e1 == setupEnv(e, b.config)
      token == e1.PINTEREST_ACCESS_TOKEN
      fail(m) == [o |-> jsonError(Str(m)), env |-> e1, files |-> f]
  IN IF ~Truthy(token) \/ token = Str("undefined")
       THEN fail("Pinterest Token is missing. Please connect first.")
     ELSE IF b.config.t \in {"undef", "null"} THEN fail("TypeError")
     ELSE IF ~Truthy(Get(b.config, "pinterest_board"))
       THEN fail("Pinterest Board ID is missing. Please enter it in Settings")
     ELSE IF b.imageData.t # "str" THEN fail("TypeError")
     ELSE
       LET prefix == "data:image/jpeg;base64,"
           base64Data == IF StartsWith(b.imageData.v, prefix)
                         THEN SubSeq(b.imageData.v, Len(prefix) + 1, Len(b.imageData.v))
                         ELSE b.imageData.v
           imagePath == "pin_" \o Decimal(t) \o ".jpg"
           f1 == [n \in DOMAIN f \cup {imagePath} |->
                    IF n = imagePath THEN B64Decode(base64Data) ELSE f[n]]
           loc == [imagePath |-> imagePath, finalTitle |-> b.title,
                   finalDesc |-> b.description, finalHash |-> b.hashtags,
                   finalAlt |-> b.altText]
           language == IF Truthy(Get(b.config, "language"))
                       THEN Get(b.config, "language") ELSE Str("en")
       IN [o |-> IF ~Truthy(b.description)
                 THEN Call(generateRequest(b.title, language, e1), loc)
                 ELSE postPinCreate(b, loc, e1, f1),
           env |-> e1, files |-> f1]

\* A handler that keeps the hashtags and the alt text the request supplied and
\* takes the generated ones only for those it left out.
postPinGeneratedKeepGiven(b, loc, reply, e, f) ==
  LET g == generatePinContent(reply)
  IN IF ~g.ok THEN jsonError(Str(g.message))
     ELSE postPinCreate(b,
            [loc EXCEPT !.finalTitle = IF Truthy(@) THEN @ ELSE Get(g.val, "title"),
                        !.finalDesc = Get(g.val, "description"),
                        !.finalHash = IF Truthy(@) THEN @ ELSE Get(g.val, "hashtags"),
                        !.finalAlt = IF Truthy(@) THEN @ ELSE Get(g.val, "altText")],
            e, f)

\* The handler from the generated content on (lines 317-340).
postPinGenerated(b, loc, reply, e, f) ==
  LET g == generatePinContent(reply)
  IN IF ~g.ok THEN jsonError(Str(g.message))
     ELSE postPinCreate(b,
            [loc EXCEPT !.finalTitle = IF Truthy(@) THEN @ ELSE Get(g.val, "title"),
                        !.finalDesc = Get(g.val, "description"),
                        !.finalHash = Get(g.val, "hashtags"),
                        !.finalAlt = Get(g.val, "altText")], e, f)

\* The handler from createPin's result on (lines 342-350).
postPinReply(loc, reply) ==
  IF reply.ok THEN
    IF reply.data.t \in {"undef", "null"} THEN jsonError(Str("TypeError"))
    ELSE Send(200, "json",
              [success |-> TRUE,
               pinUrl |-> "https://pinterest.com/pin/" \o JSToString(Get(reply.data, "id")),
               finalTitle |-> loc.finalTitle])
  ELSE LET errorData == IF reply.response /\ Truthy(reply.data) THEN reply.data
                        ELSE Str(reply.message)
       IN jsonError(IF errorData.t \in {"object", "obj", "arr", "null"}
                    THEN IF Truthy(Get(errorData, "message")) THEN Get(errorData, "message")
                         ELSE Str(JSONStringify(errorData))
                    ELSE errorData)

\* /api/generate-only up to its await (lines 275-278): config.language is a
\* TypeError when there is neither a language nor a config.
generateOnly(b, e) ==
  LET e1 == setupEnv(e, b.config)
      language == IF Truthy(b.language) THEN b.language
                  ELSE IF Truthy(Get(b.config, "language")) THEN Get(b.config, "language")
                  ELSE Str("en")
  IN [o |-> IF ~Truthy(b.language) /\ b.config.t \in {"undef", "null"}
            THEN jsonError(Str("TypeError"))
            ELSE Call(generateRequest(b.title, language, e1), NoRecord),
      env |-> e1]

\* /api/generate-only from the generated content on (lines 279-282).
generateOnlyReply(reply) ==
  LET g == generatePinContent(reply)
  IN IF g.ok THEN Send(200, "json", [success |-> TRUE, seoContent |-> g.val])
     ELSE jsonError(Str(g.message))

\* A call, stamped with the requests that last set the token and the board id.
Stamp(o, s) == IF o.kind = "call" THEN [o EXCEPT !.call.setBy = s] ELSE o

HandlePostPin(r, b) ==
  /\ req[r].pc = "idle"
  /\ LET run == postPin(b, env, files, now)
         s == SetBy(r, b.config)
     IN /\ env' = run.env
        /\ files' = run.files
        /\ lastSet' = s
        /\ Step(r, Arrived("/api/post-pin", b, 0), Stamp(run.o, s), out,
                IF ~Truthy(b.description) THEN "awaitGen" ELSE "awaitPin")
  /\ UNCHANGED <<now, probe>>

HandleGenerateOnly(r, b) ==
  /\ req[r].pc = "idle"
  /\ LET run == generateOnly(b, env)
         s == SetBy(r, b.config)
     IN /\ env' = run.env
        /\ lastSet' = s
        /\ Step(r, Arrived("/api/generate-only", b, 0), Stamp(run.o, s), out, "awaitGen")
  /\ UNCHANGED <<files, now, probe>>

\* The content service answers the request of r.
GenReply(r, reply) ==
  /\ req[r].pc = "awaitGen"
  /\ Step(r, req[r],
          IF req[r].route = "/api/post-pin"
          THEN Stamp(postPinGenerated(req[r].q, req[r].loc, reply, env, files), lastSet)
          ELSE generateOnlyReply(reply),
          Answered(r, reply), "awaitPin")
  /\ UNCHANGED <<env, lastSet, files, now, probe>>

\* The pins endpoint answers the request of r.
PinReply(r, reply) ==
  /\ req[r].route = "/api/post-pin" /\ req[r].pc = "awaitPin"
  /\ Step(r, req[r], postPinReply(req[r].loc, reply), Answered(r, reply), "none")
  /\ UNCHANGED <<env, lastSet, files, now, probe>>

(***************************************************************************)
(* The OAuth requests the model admits                                     *)
(***************************************************************************)

\* The headers of a request, x-forwarded-proto and host: of a server reached
\* directly, and of one behind a proxy that terminates TLS.
Headers == {[proto |-> Undef, host |-> "localhost:3000"]}

ProxiedHeaders == {[proto |-> Str("https"), host |-> "pins.example.com"]}

AuthCredentials ==
  { <<Str(" 1 "), Str("a~"), Str("true")>>,
    <<Str("1"), Str("s\"q"), Undef>>,
    <<Undef, Str("s1"), Undef>>,
    <<Str("1"), Str("  "), Str("false")>>,
    <<Arr("1,2"), Str("s1"), Undef>>,
    <<Str("1"), Obj, Undef>> }

AuthQueries ==
  { [client_id |-> c[1], client_secret |-> c[2], sandbox |-> c[3],
     proto |-> h.proto, host |-> h.host] : c \in AuthCredentials, h \in Headers }
  \cup
  { [client_id |-> Str("9"), client_secret |-> Str("s9"), sandbox |-> Str("TRUE"),
     proto |-> h.proto, host |-> h.host] : h \in ProxiedHeaders }

\* `state` values that no authorize step of this server issued.
ForeignStates ==
  { Undef,
    Str("%%%"),
    Str(B64Encode(Utf8Bytes("null"))),
    Str(B64Encode(Utf8Bytes("{\"client_id\":\"1\"}"))),
    Str(B64Encode(Utf8Bytes("{\"client_id\":\"1\",\"client_secret\":\"\"}"))),
    Obj,
    Arr("123,125"),
    Str(stateData("7", "s7", FALSE)) }

CallbackParams ==
  { <<e, c, st>> : e \in {Undef, Str("invalid_client"), Obj},
                   c \in {Undef, Str("c0")},
                   st \in {Undef, Str(stateData("7", "s7", FALSE))} }
    \cup { <<Undef, Str("c0"), st>> : st \in ForeignStates }

CallbackQueries ==
  { [code |-> p[2], error |-> p[1], error_description |-> Undef, state |-> p[3],
     proto |-> h.proto, host |-> h.host] : p \in CallbackParams, h \in Headers }

\* The headers of the request a browser makes for the callback URL that the
\* authorization URL names in redirect_uri, where the platform sends it: the
\* host of that URL, and the x-forwarded-proto a proxy adds (a server reached
\* directly gets none).
BrowserHeaders(url) ==
  LET uri == QueryParam(url, "redirect_uri")
      sep == Min({i \in 1..(Len(uri) - 2) : SubSeq(uri, i, i + 2) = "://"})
      scheme == SubSeq(uri, 1, sep - 1)
      host == SubSeq(uri, sep + 3, Len(uri) - Len("/callback"))
  IN { [proto |-> IF scheme = "http" THEN Undef ELSE Str(scheme), host |-> host] }

\* What the platform sends the browser back with after the authorization page
\* at url: the code when the user approves, access_denied when the user
\* cancels, and in both the state it read from the query of url.
PlatformCallbacks(url, h) ==
  { [code |-> Str("c1"), error |-> Undef, error_description |-> Undef,
     state |-> Str(QueryParam(url, "state")), proto |-> h.proto, host |-> h.host],
    [code |-> Undef, error |-> Str("access_denied"),
     error_description |-> Str("The user denied the request"),
     state |-> Str(QueryParam(url, "state")), proto |-> h.proto, host |-> h.host] }

\* The token endpoint's replies: the token, or a failure with or without a
\* response.
TokenReplies ==
  { [ok |-> TRUE, response |-> TRUE, status |-> 200,
     data |-> JObject([access_token |-> Str(t)])] : t \in {"AT1", "AT2"} }
  \cup
  { [ok |-> FALSE, response |-> FALSE, status |-> 0, data |-> Undef],
    [ok |-> FALSE, response |-> TRUE, status |-> 401,
     data |-> JObject([message |-> Str("Authentication failed.")])],
    [ok |-> FALSE, response |-> TRUE, status |-> 400,
     data |-> JObject([error_description |-> Str("redirect_uri mismatch")])],
    [ok |-> FALSE, response |-> TRUE, status |-> 400,
     data |-> JObject([message |-> JNum("2")])],
    [ok |-> FALSE, response |-> TRUE, status |-> 400,
     data |-> JObject([error_description |-> Str("invalid_client: no such redirect_uri")])],
    [ok |-> FALSE, response |-> TRUE, status |-> 502, data |-> Str("Bad Gateway")] }

(***************************************************************************)
(* Specifications                                                          *)
(***************************************************************************)

Init ==
  /\ env = UnsetEnv
  /\ lastSet = [token |-> 0, board |-> 0]
  /\ req = [r \in Slots |-> Idle]
  /\ out = [r \in Slots |-> <<>>]
  /\ res = [r \in Slots |-> <<>>]
  /\ thrown = [r \in Slots |-> ""]
  /\ files = [n \in {} |-> ""]
  /\ now = 0
  /\ probe = NoRecord

ReceiveAuth(r) == \E q \in AuthQueries : HandleAuth(r, q)

ReceiveCallback(r) == \E q \in CallbackQueries : HandleCallback(r, q, 0)

\* The browser follows the redirect of the authorize request in slot a, and
\* the platform sends it back to /callback.
FollowRedirect(r, a) ==
  /\ req[a].route = "/auth/pinterest" /\ req[a].pc = "done"
  /\ res[a][1].page = "redirect"
  /\ \E h \in BrowserHeaders(res[a][1].body.url) :
       \E q \in PlatformCallbacks(res[a][1].body.url, h) : HandleCallback(r, q, a)

NextOAuth ==
  \E r \in Slots :
    \/ ReceiveAuth(r)
    \/ ReceiveCallback(r)
    \/ \E a \in Slots : FollowRedirect(r, a)
    \/ \E reply \in TokenReplies : TokenReply(r, reply)

SpecOAuth == Init /\ [][NextOAuth]_vars

(***************************************************************************)
(* The API requests the model admits                                       *)
(***************************************************************************)

\* The token, the board id and the image of the client behind slot r.
OwnToken(r) == "tok" \o Decimal(r)
OwnBoard(r) == "brd" \o Decimal(r)
OwnImage(r) == Utf8Bytes("img" \o Decimal(r))

Config(token, board, site) ==
  JObject([pinterest_token |-> token, pinterest_board |-> board, website_url |-> site])

OwnConfig(r) == Config(Str(OwnToken(r)), Str(OwnBoard(r)), Undef)

PostBody(r, description, hashtags, websiteUrl, config) ==
  [imageData |-> Str("data:image/jpeg;base64," \o B64Encode(OwnImage(r))),
   title |-> Str("T" \o Decimal(r)), description |-> description,
   hashtags |-> hashtags, altText |-> IF Truthy(description) THEN Str("alt") ELSE Undef,
   websiteUrl |-> websiteUrl, config |-> config]

PostBodies(r) ==
  { \* the content is to be generated
    PostBody(r, Undef, Undef, Str("example.com"), OwnConfig(r)),
    \* the content is given
    PostBody(r, Str("D"), Str("a, b"), Str("httpbin.org"), OwnConfig(r)),
    \* the token is the text 'undefined', or is left to process.env
    PostBody(r, Str("D"), Arr("a,b"), Str(""),
             Config(Str("undefined"), Str(OwnBoard(r)), Str("https://site.io"))),
    PostBody(r, Str("D"), Arr("a,b"), Str("x.io"),
             Config(Undef, Str(OwnBoard(r)), Undef)),
    \* no board id, no websiteUrl, no config
    PostBody(r, Str("D"), Arr("a,b"), Str("x.io"), Config(Str(OwnToken(r)), Undef, Undef)),
    PostBody(r, Str("D"), Arr("a,b"), Undef, OwnConfig(r)),
    PostBody(r, Str("D"), Arr("a,b"), Str("x.io"), Undef) }

GenerateBodies(r) ==
  { [title |-> Str("T" \o Decimal(r)), config |-> OwnConfig(r), language |-> Str("fr")],
    [title |-> Str("T" \o Decimal(r)), config |-> Undef, language |-> Undef] }

\* The content service's replies: content that holds an object, content that
\* holds none, and a failure.
GenReplies ==
  { [ok |-> TRUE, response |-> TRUE, message |-> "", data |-> Undef,
     content |-> Str("Sure: {\"title\":\"G\",\"description\":\"gd\","
                       \o "\"hashtags\":[\"g1\",\"g2\"],\"altText\":\"ga\"}")],
    [ok |-> TRUE, response |-> TRUE, message |-> "", data |-> Undef,
     content |-> Str("I cannot help with that")],
    [ok |-> FALSE, response |-> TRUE, message |-> "Request failed with status code 401",
     data |-> JObject([error |-> JObject([message |-> Str("No auth credentials found")])]),
     content |-> Undef] }

\* The pins endpoint's replies: the pin, or a failure with or without a
\* response.
PinReplies ==
  { [ok |-> TRUE, response |-> TRUE, message |-> "",
     data |-> JObject([id |-> Str(i)])] : i \in {"71", "72"} }
  \cup
  { [ok |-> FALSE, response |-> TRUE, message |-> "Request failed with status code 401",
     data |-> JObject([code |-> JNum("2"), message |-> Str("Authentication failed.")])],
    [ok |-> FALSE, response |-> FALSE, message |-> "Network Error", data |-> Undef] }

\* How far the clock runs.
MaxClock == 1

ReceivePostPin(r) == \E b \in PostBodies(r) : HandlePostPin(r, b)

ReceiveGenerateOnly(r) == \E b \in GenerateBodies(r) : HandleGenerateOnly(r, b)

\* A millisecond passes (while a request is yet to come: the clock is read
\* only when a request arrives).
Tick ==
  /\ now < MaxClock
  /\ \E r \in Slots : req[r].pc = "idle"
  /\ now' = now + 1
  /\ UNCHANGED <<env, lastSet, req, out, res, thrown, files, probe>>

Next ==
  \/ \E r \in Slots :
       \/ ReceivePostPin(r)
       \/ ReceiveGenerateOnly(r)
       \/ \E reply \in GenReplies : GenReply(r, reply)
       \/ \E reply \in PinReplies : PinReply(r, reply)
  \/ Tick

Spec == Init /\ [][Next]_vars

(***************************************************************************)
(* The link of a pin, on its own                                           *)
(***************************************************************************)

\* The websiteUrl of a request and the website_url of its config.
LinkInputs ==
  { Undef, JNull, Str(""), Str("   "), Str("https://"), Str(" http:// "),
    Str("example.com"), Str("  example.com "), Str("https://a.io"),
    Str("http://a.io/p?q=1"), Str("httpbin.org"), Str("HTTPS://A.IO") }

DefaultInputs ==
  { Undef, Str(""), Str("https://site.io"), Str("site.io"), Str("https://") }

InitLink ==
  /\ env = UnsetEnv
  /\ lastSet = [token |-> 0, board |-> 0]
  /\ req = [r \in Slots |-> Idle]
  /\ out = [r \in Slots |-> <<>>]
  /\ res = [r \in Slots |-> <<>>]
  /\ thrown = [r \in Slots |-> ""]
  /\ files = [n \in {} |-> ""]
  /\ now = 0
  /\ \E w \in LinkInputs, d \in DefaultInputs :
       probe = [websiteUrl |-> w, website_url |-> d, runs |-> 0,
                first |-> NoRecord, again |-> NoRecord]

\* The link is computed from the request.
ApplyFinalLink ==
  /\ probe.runs = 0
  /\ probe' = [probe EXCEPT
       !.runs = 1,
       !.first = finalLink(probe.websiteUrl, Config(Undef, Undef, probe.website_url))]
  /\ UNCHANGED <<env, lastSet, req, out, res, thrown, files, now>>

\* The link computed is sent as the websiteUrl of a second request.
ApplyFinalLinkAgain ==
  /\ probe.runs = 1 /\ probe.first.ok
  /\ probe' = [probe EXCEPT
       !.runs = 2,
       !.again = finalLink(Str(probe.first.link),
                           Config(Undef, Undef, probe.website_url))]
  /\ UNCHANGED <<env, lastSet, req, out, res, thrown, files, now>>

NextLink == ApplyFinalLink \/ ApplyFinalLinkAgain

SpecLink == InitLink /\ [][NextLink]_vars

(***************************************************************************)
(* The OAuth callback                                                      *)
(***************************************************************************)

\* C1: GET /callback decides in a fixed order.  A query whose `error` is
\* present gets the authorization-error page with status 400 and nothing else
\* happens, whatever code or state it carries; a query with no error and no
\* code gets the missing-code page with status 400; the state is decoded and
\* the token requested only for a query with a code and no error.
C1_BranchPriority ==
  \A r \in Slots :
    (req[r].route = "/callback" /\ req[r].pc # "idle") =>
      LET q == req[r].q IN
        /\ Truthy(q.error) =>
             /\ out[r] = <<>>
             /\ Len(res[r]) = 1
             /\ res[r][1].status = 400 /\ res[r][1].page = "authError"
        /\ (~Truthy(q.error) /\ ~Truthy(q.code)) =>
             /\ out[r] = <<>>
             /\ Len(res[r]) = 1
             /\ res[r][1].status = 400 /\ res[r][1].page = "noCode"
        /\ (out[r] # <<>>
            \/ \E i \in DOMAIN res[r] :
                 res[r][i].page \in {"sessionError", "success", "tokenError"}) =>
             (Truthy(q.code) /\ ~Truthy(q.error))

\* C2: a callback request makes at most one POST to the token endpoint, and
\* only when its query has a code, no error, and a state that decodes to an
\* object with a non-empty client_id and client_secret; the POST carries the
\* Basic credential base64(client_id:client_secret) of those decoded values;
\* the success page is sent only after the POST succeeded, and posts the
\* access_token the platform returned.
C2_TokenExchange ==
  \A r \in Slots :
    req[r].route = "/callback" =>
      /\ Len(out[r]) <= 1
      /\ out[r] # <<>> =>
           LET q == req[r].q
               parsed == JSONParse(IF q.state.t = "arr" THEN ArrayBytes(q.state)
                                   ELSE B64Decode(q.state.v))
               id == Get(parsed.val, "client_id")
               secret == Get(parsed.val, "client_secret")
               sent == out[r][1].authorization
           IN /\ Truthy(q.code) /\ ~Truthy(q.error)
              /\ q.state.t \in {"str", "arr"} /\ parsed.ok /\ parsed.val.t = "object"
              /\ Truthy(id) /\ Truthy(secret)
              /\ out[r][1].api = "POST https://api.pinterest.com/v5/oauth/token"
              /\ SubSeq(sent, 1, 6) = "Basic "
              /\ B64Decode(SubSeq(sent, 7, Len(sent)))
                   = Utf8Bytes(JSToString(id) \o ":" \o JSToString(secret))
      /\ \A i \in DOMAIN res[r] :
           res[r][i].page = "success" =>
             /\ out[r] # <<>> /\ out[r][1].reply # Pending /\ out[r][1].reply.ok
             /\ res[r][i].status = 200
             /\ res[r][i].body.token
                  = JSToString(Get(out[r][1].reply.data, "access_token"))

\* A callback whose token request succeeded has sent the success page.
C2_Witness ==
  \E r \in Slots :
    /\ req[r].route = "/callback" /\ req[r].pc = "done"
    /\ Len(out[r]) = 1 /\ out[r][1].reply # Pending /\ out[r][1].reply.ok
    /\ Len(res[r]) = 1 /\ res[r][1].page = "success"

\* C3: the state that /auth/pinterest puts in the authorization URL, come
\* back as the state of /callback with the user's approval, decodes to the
\* structure that was encoded: the trimmed client_id, the trimmed
\* client_secret and the sandbox flag.
C3_StateRoundTrip ==
  \A r \in Slots :
    (/\ req[r].route = "/callback" /\ req[r].flow # 0
     /\ Truthy(req[r].q.code) /\ req[r].pc # "idle") =>
      LET a == req[req[r].flow].q
      IN /\ out[r] # <<>>
         /\ req[r].loc = [client_id |-> Str(Trim(a.client_id.v)),
                          client_secret |-> Str(Trim(a.client_secret.v)),
                          sandbox |-> JBool(a.sandbox = Str("true"))]

C7_OneResponse ==
  \A r \in Slots :
    /\ thrown[r] = ""
    /\ Len(res[r]) <= 1
    /\ req[r].pc \in {"done", "crashed"} => Len(res[r]) = 1

(***************************************************************************)
(* Posting a pin                                                           *)
(***************************************************************************)

\* C5: a create-pin call is issued only with a non-empty board id and an
\* access token that is neither empty nor the text 'undefined', other
\* requests in flight or not; a post-pin request whose own config names no
\* board, or names the token 'undefined', fails with an error response, has
\* written no image file and has made no outbound call.
C5_PinCredentials ==
  \A r \in Slots :
    /\ \A i \in DOMAIN out[r] :
         out[r][i].api = "POST https://api.pinterest.com/v5/pins" =>
           /\ Truthy(out[r][i].board_id)
           /\ out[r][i].authorization \notin {"Bearer ", "Bearer undefined"}
    /\ (/\ req[r].route = "/api/post-pin" /\ req[r].pc # "idle"
        /\ \/ ~Truthy(Get(req[r].q.config, "pinterest_board"))
           \/ Get(req[r].q.config, "pinterest_token") = Str("undefined")) =>
         /\ out[r] = <<>>
         /\ Len(res[r]) = 1 /\ res[r][1].status = 500
         /\ \A n \in DOMAIN files : files[n] # OwnImage(r)

\* C6: the configuration is shared by the requests in flight: a create-pin
\* call carries the token and the board id of whichever request last set
\* them, which need not be the request that makes the call.
C6_LastWriterWins ==
  \A r \in Slots : \A i \in DOMAIN out[r] :
    out[r][i].api = "POST https://api.pinterest.com/v5/pins" =>
      LET c == out[r][i] IN
        /\ c.setBy.token # 0 =>
             c.authorization = "Bearer " \o
               JSToString(Get(req[c.setBy.token].q.config, "pinterest_token"))
        /\ c.setBy.board # 0 =>
             c.board_id =
               Str(JSToString(Get(req[c.setBy.board].q.config, "pinterest_board")))

\* A request that named its own token and board has made a create-pin call
\* with the token and the board of another request.
C6_Witness ==
  \E r \in Slots : \E i \in DOMAIN out[r] :
    /\ out[r][i].api = "POST https://api.pinterest.com/v5/pins"
    /\ req[r].q.config = OwnConfig(r)
    /\ out[r][i].setBy.token # r /\ out[r][i].setBy.board # r
    /\ out[r][i].authorization # "Bearer " \o OwnToken(r)
    /\ out[r][i].board_id # Str(OwnBoard(r))

\* C8: a post-pin request without a description makes at most one generation
\* call and at most one create-pin call; the create-pin call is made after
\* the generation call was answered with content that holds an object, so
\* none is made when generation fails; the success response is sent after the
\* create-pin call succeeded, and its pinUrl is 'https://pinterest.com/pin/'
\* followed by the id that call returned.
C8_GenerateThenCreate ==
  \A r \in Slots :
    (req[r].route = "/api/post-pin" /\ ~Truthy(req[r].q.description)) =>
      LET gen == {i \in DOMAIN out[r] :
                    out[r][i].api = "POST https://openrouter.ai/api/v1/chat/completions"}
          pin == {i \in DOMAIN out[r] :
                    out[r][i].api = "POST https://api.pinterest.com/v5/pins"}
      IN /\ Cardinality(gen) <= 1 /\ Cardinality(pin) <= 1
         /\ pin # {} =>
              /\ gen = {1} /\ pin = {2}
              /\ out[r][1].reply # Pending /\ out[r][1].reply.ok
              /\ Includes(out[r][1].reply.content.v, "{")
         /\ \A i \in DOMAIN res[r] :
              res[r][i].body.success =>
                /\ pin = {2} /\ out[r][2].reply # Pending /\ out[r][2].reply.ok
                /\ res[r][i].body.pinUrl
                     = "https://pinterest.com/pin/" \o Get(out[r][2].reply.data, "id").v

\* A post-pin request without a description has answered with the URL of the
\* pin.
C8_Witness ==
  \E r \in Slots :
    /\ req[r].route = "/api/post-pin" /\ ~Truthy(req[r].q.description)
    /\ req[r].pc = "done" /\ Len(out[r]) = 2
    /\ Len(res[r]) = 1 /\ res[r][1].body.success

\* C9: when websiteUrl is absent, empty after trimming, or a bare scheme, the
\* link is the configured default site URL (with 'https://' before it when it
\* has no scheme); a trimmed value with no scheme gets 'https://' before it;
\* a trimmed value with a scheme is the link as it is; and the link, sent as
\* websiteUrl again, comes back unchanged.
C9_LinkNormalization ==
  probe.runs >= 1 =>
    LET w == probe.websiteUrl
        hasScheme(l) == StartsWith(l, "http://") \/ StartsWith(l, "https://")
        site == IF Truthy(probe.website_url) THEN probe.website_url.v
                ELSE "https://www.omarecipes.com"
        default == IF hasScheme(site) THEN site ELSE "https://" \o site
        missing == \/ w.t \in {"undef", "null"}
                   \/ w.t = "str" /\ Trim(w.v) \in {"", "http://", "https://"}
    IN /\ missing => (probe.first.ok /\ probe.first.link = default)
       /\ (w.t = "str" /\ ~missing /\ ~hasScheme(Trim(w.v))) =>
            (probe.first.ok /\ probe.first.link = "https://" \o Trim(w.v))
       /\ (w.t = "str" /\ ~missing /\ hasScheme(Trim(w.v))) =>
            (probe.first.ok /\ probe.first.link = Trim(w.v))
       /\ probe.runs = 2 =>
            (probe.again.ok /\ probe.again.link = probe.first.link)

\* C10: every link that post-pin hands to createPin is absolute: it starts
\* with 'http://' or 'https://' and is more than the scheme.
C10_AbsoluteLink ==
  \A r \in Slots : \A i \in DOMAIN out[r] :
    out[r][i].api = "POST https://api.pinterest.com/v5/pins" =>
      /\ StartsWith(out[r][i].link, "http://") \/ StartsWith(out[r][i].link, "https://")
      /\ out[r][i].link \notin {"http://", "https://"}
(***************************************************************************)
(* createPin, on its own                                                   *)
(***************************************************************************)

\* The descriptions and the hashtag lists of the pins handed to createPin.
DescriptionInputs ==
  { Str("D"), Str(""), Str("Two words"), Str(" x "), Str("l1\nl2"), Str("#d") }

HashtagInputs ==
  { <<>>, <<"a">>, <<"a", "b c">>, <<"b c", "a">>, <<"">>, <<" a ">>,
    <<"a", "">>, <<"#a">>, <<"a", "b", "c">>, <<"a", "a">> }

InitJoin ==
  /\ env = [UnsetEnv EXCEPT !.PINTEREST_ACCESS_TOKEN = Str(OwnToken(1)),
                            !.PINTEREST_BOARD_ID = Str(OwnBoard(1))]
  /\ lastSet = [token |-> 0, board |-> 0]
  /\ req = [r \in Slots |-> Idle]
  /\ out = [r \in Slots |-> <<>>]
  /\ res = [r \in Slots |-> <<>>]
  /\ thrown = [r \in Slots |-> ""]
  /\ files = [n \in {"pin_0.jpg"} |-> OwnImage(1)]
  /\ now = 0
  /\ \E d \in DescriptionInputs, h \in HashtagInputs :
       probe = [description |-> d, hashtags |-> h, runs |-> 0, request |-> NoRecord]

\* createPin is called with the pin, and builds the request it posts.
ApplyCreatePin ==
  /\ probe.runs = 0
  /\ probe' = [probe EXCEPT
       !.runs = 1,
       !.request = createPin([title |-> Str("T"), description |-> probe.description,
                              hashtags |-> probe.hashtags, altText |-> Str("alt"),
                              imagePath |-> "pin_0.jpg", link |-> "https://a.io"],
                             env, files).request]
  /\ UNCHANGED <<env, lastSet, req, out, res, thrown, files, now>>

NextJoin == ApplyCreatePin

SpecJoin == InitJoin /\ [][NextJoin]_vars

\* C11: the description createPin submits is the pin's description, then two
\* newlines, then the hashtags in their order, each with '#' before it and one
\* space between two of them; the text of a hashtag is left as it is (inner
\* and outer spaces included), and nothing follows the last hashtag.
C11_HashtagJoin ==
  probe.runs = 1 =>
    LET D == probe.description.v
        H == probe.hashtags
        n == Len(H)
        s == probe.request.description
        \* where the '#' of the i-th hashtag stands
        start[i \in 1..(n + 1)] ==
          IF i = 1 THEN Len(D) + 3 ELSE start[i - 1] + Len(H[i - 1]) + 2
    IN /\ SubSeq(s, 1, Len(D)) = D
       /\ SubSeq(s, Len(D) + 1, Len(D) + 2) = "\n\n"
       /\ \A i \in 1..n :
            /\ SubSeq(s, start[i], start[i] + Len(H[i])) = "#" \o H[i]
            /\ i < n => CharAt(s, start[i] + Len(H[i]) + 1) = " "
       /\ Len(s) = IF n = 0 THEN Len(D) + 2 ELSE start[n] + Len(H[n])

\* The description 'D' with the hashtags 'a' and 'b c' was submitted as
\* 'D', two newlines, '#a #b c'.
C11_Witness ==
  /\ probe.runs = 1
  /\ probe.description = Str("D") /\ probe.hashtags = <<"a", "b c">>
  /\ probe.request.description = "D\n\n#a #b c"
  /\ Len(probe.request.description) = 10
(***************************************************************************)
(* createTextSVG: the banner of the poster                                 *)
(***************************************************************************)

\* String.prototype.toUpperCase, on the alphabet of the model
toUpperCase(s) ==
  Join([i \in 1..Len(s) |->
          LET c == Code(CharAt(s, i))
          IN IF c >= 97 /\ c <= 122 THEN Char(c - 32) ELSE CharAt(s, i)], 1, Len(s))

\* String.prototype.split(' ')
splitSpaces(s) ==
  LET n == Len(s)
      spaces == {i \in 1..n : CharAt(s, i) = " "}
      starts == {1} \cup {i + 1 : i \in spaces}
      stop(i) == IF \E j \in spaces : j >= i
                 THEN Min({j \in spaces : j >= i}) - 1 ELSE n
      nth(k) == CHOOSE i \in starts : Cardinality({j \in starts : j < i}) = k - 1
  IN [k \in 1..Cardinality(starts) |-> SubSeq(s, nth(k), stop(nth(k)))]

maxCharsPerLine == 25

\* The loop over the words, from the i-th word on, with the line in the
\* making and the lines made.
RECURSIVE wrapWords(_, _, _, _)
wrapWords(words, i, currentLine, lines) ==
  IF i > Len(words)
  THEN IF currentLine # "" THEN Append(lines, currentLine) ELSE lines
  ELSE With(LAMBDA joined :
         IF Len(joined) <= maxCharsPerLine
         THEN wrapWords(words, i + 1, joined, lines)
         ELSE wrapWords(words, i + 1, words[i],
                        IF currentLine # "" THEN Append(lines, currentLine) ELSE lines),
         Trim(currentLine \o " " \o words[i]))

\* Lines that are cut after every 25 characters, words or not.
titleLinesCut(titleUpper) ==
  [k \in 1..((Len(titleUpper) + maxCharsPerLine - 1) \div maxCharsPerLine) |->
     SubSeq(titleUpper, (k - 1) * maxCharsPerLine + 1,
            IF k * maxCharsPerLine < Len(titleUpper) THEN k * maxCharsPerLine
            ELSE Len(titleUpper))]

\* The lines of the upper-cased title (lines 117-136).
titleLines(titleUpper) ==
  IF Len(titleUpper) > maxCharsPerLine
  THEN wrapWords(splitSpaces(titleUpper), 1, "", <<>>)
  ELSE <<titleUpper>>

\* A font size of two tiers only.
fontSizeTwoTiers(lines) ==
  IF \E i \in DOMAIN lines : Len(lines[i]) > 25 THEN 50 ELSE 72

\* The font size of the lines (lines 139-141).
fontSize(lines) ==
  IF \E i \in DOMAIN lines : Len(lines[i]) > 25 THEN 50
  ELSE IF \E i \in DOMAIN lines : Len(lines[i]) > 20 THEN 60
  ELSE 72

\* createTextSVG(title, websiteUrl, width, height): the text elements of the
\* banner.  Ten times the line height and twenty times the first baseline are
\* kept, which are integers (fontSize * 1.3 is not).
createTextSVG(title, websiteUrl, width, height) ==
  With(LAMBDA lines :
         [lines |-> lines,
          fontSize |-> fontSize(lines),
          x |-> width \div 2,
          lineHeight10 |-> fontSize(lines) * 13,
          startY20 |-> 10 * height - Len(lines) * fontSize(lines) * 13
                         + 10 * fontSize(lines),
          url |-> IF Truthy(websiteUrl) THEN JSToString(websiteUrl) ELSE ""],
       titleLines(toUpperCase(title)))

\* The titles of the posters: up to three words of 0 to 26 letters, with one
\* or two spaces between them.
TitleWords ==
  { "", "ab", "Cdefghijkl", "mnopqrstuvwx", "Yzabcdefghijk",
    "lmnopqrstuvwxyzabcdef", "abcdefghijklmnopqrstuvwxyz" }

TitleInputs ==
  { w1 \o s1 \o w2 \o s2 \o w3 :
      w1 \in TitleWords, w2 \in TitleWords, w3 \in TitleWords \ {"lmnopqrstuvwxyzabcdef"},
      s1 \in {" ", "  "}, s2 \in {"", " "} }

InitTitle ==
  /\ env = UnsetEnv
  /\ lastSet = [token |-> 0, board |-> 0]
  /\ req = [r \in Slots |-> Idle]
  /\ out = [r \in Slots |-> <<>>]
  /\ res = [r \in Slots |-> <<>>]
  /\ thrown = [r \in Slots |-> ""]
  /\ files = [n \in {} |-> ""]
  /\ now = 0
  /\ \E t \in TitleInputs : probe = [title |-> t, runs |-> 0, svg |-> NoRecord]

\* The banner is laid out for the title.
ApplyCreateTextSVG ==
  /\ probe.runs = 0
  /\ probe' = [probe EXCEPT
       !.runs = 1,
       !.svg = createTextSVG(probe.title, getConfig(env).websiteUrl, 1000, 330)]
  /\ UNCHANGED <<env, lastSet, req, out, res, thrown, files, now>>

NextTitle == ApplyCreateTextSVG

SpecTitle == InitTitle /\ [][NextTitle]_vars

\* C12: an upper-cased title of at most 25 characters is one line.  The lines
\* of a longer title are made of its words, whole and in their order, with one
\* space between two words of a line: no line is empty, a line breaks only
\* where the title has a space, a line is longer than 25 characters only when
\* it is a single word, and the lines are filled greedily (the first word of
\* the next line would not have fitted on the line before it).
C12_TitleWrapping ==
  probe.runs = 1 =>
    LET U == toUpperCase(probe.title)
        lines == probe.svg.lines
        n == Len(U)
        \* the words of the title: its maximal runs of characters other than spaces
        first == {i \in 1..n : CharAt(U, i) # " " /\ (i = 1 \/ CharAt(U, i - 1) = " ")}
        last == {i \in 1..n : CharAt(U, i) # " " /\ (i = n \/ CharAt(U, i + 1) = " ")}
        kth(S, k) == CHOOSE x \in S : Cardinality({y \in S : y < x}) = k - 1
        word(k) == SubSeq(U, kth(first, k), kth(last, k))
        nwords == Cardinality(first)
        \* the number of words of the lines before line i, and of line i
        spacesOf(l) == Cardinality({j \in 1..Len(l) : CharAt(l, j) = " "})
        before[i \in 1..(Len(lines) + 1)] ==
          IF i = 1 THEN 0 ELSE before[i - 1] + spacesOf(lines[i - 1]) + 1
        \* the words a..b with one space between them
        joined[a \in 1..(nwords + 1), b \in 0..nwords] ==
          IF a > b THEN ""
          ELSE IF a = b THEN word(a)
          ELSE joined[a, b - 1] \o " " \o word(b)
    IN /\ n <= 25 => lines = <<U>>
       /\ n > 25 =>
            /\ before[Len(lines) + 1] = nwords
            /\ \A i \in DOMAIN lines :
                 /\ lines[i] # ""
                 /\ lines[i] = joined[before[i] + 1, before[i + 1]]
                 /\ Len(lines[i]) > 25 => before[i + 1] = before[i] + 1
                 /\ i < Len(lines) =>
                      Len(lines[i]) + 1 + Len(word(before[i + 1] + 1)) > 25

\* A title of 26 characters in two words came out as two lines, a word each.
C12_Witness ==
  /\ probe.runs = 1
  /\ probe.title = "mnopqrstuvwx Yzabcdefghijk"
  /\ probe.svg.lines = <<"MNOPQRSTUVWX", "YZABCDEFGHIJK">>

\* C13: the font size is 72 when no line is longer than 20 characters, 60
\* when the longest line has 21 to 25 characters, and 50 when a line is longer
\* than 25 characters.
C13_FontSize ==
  probe.runs = 1 =>
    LET lines == probe.svg.lines
        longest == IF lines = <<>> THEN 0
                   ELSE Max({Len(lines[i]) : i \in DOMAIN lines})
    IN /\ probe.svg.fontSize \in {72, 60, 50}
       /\ longest <= 20 => probe.svg.fontSize = 72
       /\ (longest > 20 /\ longest <= 25) => probe.svg.fontSize = 60
       /\ longest > 25 => probe.svg.fontSize = 50

\* A wrapped title whose longest line has 23 characters is set in size 60.
C13_Witness ==
  /\ probe.runs = 1
  /\ Len(probe.svg.lines) = 2
  /\ Len(probe.svg.lines[1]) = 23 /\ Len(probe.svg.lines[2]) <= 20
  /\ probe.svg.fontSize = 60
(***************************************************************************)
(* The authorize step and the token exchange                               *)
(***************************************************************************)

\* C14: GET /auth/pinterest redirects to the authorization URL exactly when
\* client_id and client_secret are both non-empty after trimming, and answers
\* 400 with the configuration-error page and no redirect otherwise; the state
\* of the redirect decodes to the trimmed client_id, the trimmed
\* client_secret, and a sandbox flag that is true exactly when the query's
\* sandbox is the string 'true'.
C14_AuthorizeValidation ==
  \A r \in Slots :
    (req[r].route = "/auth/pinterest" /\ req[r].pc # "idle") =>
      LET q == req[r].q
          given(x) == x.t = "str" /\ Trim(x.v) # ""
          valid == given(q.client_id) /\ given(q.client_secret)
      IN /\ Len(res[r]) = 1
         /\ valid =>
              /\ res[r][1].status = 302 /\ res[r][1].page = "redirect"
              /\ StartsWith(res[r][1].body.url, "https://www.pinterest.com/oauth/?")
              /\ LET decoded == JSONParse(B64Decode(RawParam(res[r][1].body.url, "state")))
                 IN /\ decoded.ok
                    /\ decoded.val = JObject([client_id |-> Str(Trim(q.client_id.v)),
                                              client_secret |-> Str(Trim(q.client_secret.v)),
                                              sandbox |-> JBool(q.sandbox = Str("true"))])
         /\ ~valid =>
              /\ res[r][1].status = 400 /\ res[r][1].page = "configError"

\* C15: the redirect_uri of the token request of a flow is the callback URL
\* that the authorize step of the flow put in the authorization URL.
C15_SameRedirectUri ==
  \A r \in Slots :
    (req[r].route = "/callback" /\ req[r].flow # 0 /\ out[r] # <<>>) =>
      /\ out[r][1].redirect_uri = QueryParam(res[req[r].flow][1].body.url, "redirect_uri")
      /\ out[r][1].redirect_uri = redirectUri(req[req[r].flow].q)

\* A flow that began behind the proxy has made its token request with the
\* https callback URL of the proxy's host.
C15_Witness ==
  \E r \in Slots :
    /\ req[r].route = "/callback" /\ req[r].flow # 0 /\ Len(out[r]) = 1
    /\ req[req[r].flow].q.proto = Str("https")
    /\ out[r][1].redirect_uri = "https://pins.example.com/callback"

\* C16: when the token request fails, the callback answers with the failure
\* page and the platform's status (500 when there was no response); the page
\* echoes the platform's error detail; it shows the credential hint exactly
\* when the status is 401 or the detail contains 'invalid_client', the
\* URI-mismatch hint exactly when the detail contains 'redirect_uri', and the
\* generic hint exactly when it shows neither.
C16_TokenFailurePage ==
  \A r \in Slots :
    (/\ req[r].route = "/callback" /\ req[r].pc # "awaitToken"
     /\ out[r] # <<>> /\ ~out[r][1].reply.ok) =>
      LET reply == out[r][1].reply
          status == IF reply.response THEN reply.status ELSE 500
          said == IF ~reply.response THEN Str("{}")
                  ELSE IF reply.data.t = "str" THEN reply.data
                  ELSE IF Truthy(Get(reply.data, "error_description"))
                    THEN Get(reply.data, "error_description")
                  ELSE Get(reply.data, "message")
          detail == JSToString(said)
          has(hints, h) == \E i \in DOMAIN hints : hints[i] = h
          credential == status = 401 \/ Includes(detail, "invalid_client")
          mismatch == Includes(detail, "redirect_uri")
      IN /\ Len(res[r]) = 1
         /\ res[r][1].page = "tokenError" /\ res[r][1].status = status
         /\ res[r][1].body.detail = detail
         /\ has(res[r][1].body.hints, "credentials") <=> credential
         /\ has(res[r][1].body.hints, "redirectUri") <=> mismatch
         /\ has(res[r][1].body.hints, "generic") <=> (~credential /\ ~mismatch)
(***************************************************************************)
(* setupEnv, on its own                                                    *)
(***************************************************************************)

\* The `config` of the requests: absent, null, no object, empty, and objects
\* that name some of the fields.
ConfigInputs ==
  { Undef, JNull, Str("x"), JObject(EmptyFields),
    JObject([openrouter_key |-> Str("k1"), pinterest_sandbox |-> JBool(TRUE)]),
    JObject([openrouter_key |-> Str("k2"), pinterest_sandbox |-> JBool(FALSE)]),
    JObject([pinterest_token |-> Str("tokA"), pinterest_board |-> Str(""),
             pinterest_sandbox |-> Str("true")]),
    JObject([pinterest_token |-> Str("tokB"), pinterest_board |-> JNum("42"),
             website_url |-> Str("https://b.io"), pinterest_sandbox |-> Str("false")]),
    JObject([openrouter_model |-> Str("m2"), pinterest_app_id |-> Str("id2"),
             pinterest_app_secret |-> Str("sec2"), pinterest_sandbox |-> Str("TRUE")]),
    JObject([website_url |-> JNull, pinterest_sandbox |-> JNum("1")]) }

\* How many requests set the configuration one after the other.
MaxMerges == 2

\* process.env as dotenv.config() leaves it when the .env file sets variables.
DotEnv ==
  [UnsetEnv EXCEPT !.OPENROUTER_API_KEY = Str("k0"),
                   !.PINTEREST_ACCESS_TOKEN = Str("tok0"),
                   !.PINTEREST_BOARD_ID = Str("brd0"),
                   !.WEBSITE_URL = Str("https://site0.io"),
                   !.PINTEREST_SANDBOX = Str("true")]

InitEnv ==
  /\ env \in {UnsetEnv, DotEnv}
  /\ lastSet = [token |-> 0, board |-> 0]
  /\ req = [r \in Slots |-> Idle]
  /\ out = [r \in Slots |-> <<>>]
  /\ res = [r \in Slots |-> <<>>]
  /\ thrown = [r \in Slots |-> ""]
  /\ files = [n \in {} |-> ""]
  /\ now = 0
  /\ probe = [runs |-> 0, data |-> Undef, before |-> env]

\* A request's setupEnv(config) runs on process.env.
ApplySetupEnv ==
  /\ probe.runs < MaxMerges
  /\ \E data \in ConfigInputs :
       /\ env' = setupEnv(env, data)
       /\ probe' = [runs |-> probe.runs + 1, data |-> data, before |-> env]
  /\ UNCHANGED <<lastSet, req, out, res, thrown, files, now>>

NextEnv == ApplySetupEnv

SpecEnv == InitEnv /\ [][NextEnv]_vars

\* C17: after setupEnv(config), every variable whose field the config names
\* with a non-empty value holds that value (as text), every other variable
\* holds what it held before, and PINTEREST_SANDBOX is 'true' when the
\* config's pinterest_sandbox is true or 'true' and 'false' otherwise; an
\* absent config changes nothing.
C17_ConfigMerge ==
  probe.runs >= 1 =>
    LET data == probe.data
        before == probe.before
        fields == { <<"openrouter_key", "OPENROUTER_API_KEY">>,
                    <<"pinterest_token", "PINTEREST_ACCESS_TOKEN">>,
                    <<"pinterest_board", "PINTEREST_BOARD_ID">>,
                    <<"website_url", "WEBSITE_URL">>,
                    <<"openrouter_model", "OPENROUTER_MODEL">>,
                    <<"pinterest_app_id", "PINTEREST_APP_ID">>,
                    <<"pinterest_app_secret", "PINTEREST_APP_SECRET">> }
        named(f) == data.t = "object" /\ f \in DOMAIN data.f
                    /\ data.f[f].t \in {"str", "num"} /\ data.f[f].v # ""
    IN IF data.t \in {"undef", "null"} THEN env = before
       ELSE /\ \A p \in fields :
                 env[p[2]] = IF named(p[1]) THEN Str(data.f[p[1]].v) ELSE before[p[2]]
            /\ env.PINTEREST_SANDBOX \in {Str("true"), Str("false")}
            /\ env.PINTEREST_SANDBOX = Str("true") <=>
                 /\ data.t = "object" /\ "pinterest_sandbox" \in DOMAIN data.f
                 /\ data.f.pinterest_sandbox \in {JBool(TRUE), Str("true")}

\* A second request that names a token has left the first request's key in
\* place and has set its own token and sandbox flag.
C17_Witness ==
  /\ probe.runs = 2
  /\ probe.before.OPENROUTER_API_KEY = Str("k2")
  /\ probe.before.PINTEREST_SANDBOX = Str("false")
  /\ env.OPENROUTER_API_KEY = Str("k2")
  /\ env.PINTEREST_ACCESS_TOKEN = Str("tokA")
  /\ env.PINTEREST_BOARD_ID = Undef
  /\ env.PINTEREST_SANDBOX = Str("true")
(***************************************************************************)
(* GET /api/list-boards                                                    *)
(***************************************************************************)

\* res.status(500).json({success: false, error: {message}})
boardsError(message) ==
  Send(500, "json", [success |-> FALSE, error |-> [message |-> message]])

\* The handler up to its await (lines 254-263), while process.env is e.
listBoards(q, e) ==
  IF ~Truthy(q.token) THEN Send(400, "json", [error |-> "Missing token"])
  ELSE LET sandbox == q.sandbox = Str("true") \/ e.PINTEREST_SANDBOX = Str("true")
           baseUrl == IF sandbox THEN "https://api-sandbox.pinterest.com"
                      ELSE "https://api.pinterest.com"
       IN Call([api |-> "GET " \o baseUrl \o "/v5/boards",
                authorization |-> "Bearer " \o JSToString(q.token),
                reply |-> Pending], NoRecord)

\* The handler from the boards endpoint's reply on (lines 264-269):
\* response.data.items is a TypeError, caught, when the reply has no data.
listBoardsReply(reply) ==
  IF reply.ok THEN
    IF reply.data.t \in {"undef", "null"} THEN boardsError(Str("{}"))
    ELSE Send(200, "json", [success |-> TRUE, boards |-> Get(reply.data, "items")])
  ELSE LET errData == IF reply.response /\ Truthy(reply.data) THEN reply.data
                      ELSE JObject(EmptyFields)
       IN boardsError(IF Truthy(Get(errData, "message")) THEN Get(errData, "message")
                      ELSE IF errData.t = "str" THEN errData
                      ELSE Str(JSONStringify(errData)))

HandleListBoards(r, q) ==
  /\ req[r].pc = "idle"
  /\ Step(r, Arrived("/api/list-boards", q, 0), listBoards(q, env), out, "awaitBoards")
  /\ UNCHANGED <<env, lastSet, files, now, probe>>

\* The boards endpoint answers the request of r.
BoardsReply(r, reply) ==
  /\ req[r].route = "/api/list-boards" /\ req[r].pc = "awaitBoards"
  /\ Step(r, req[r], listBoardsReply(reply), Answered(r, reply), "none")
  /\ UNCHANGED <<env, lastSet, files, now, probe>>

\* The queries of /api/list-boards.
BoardQueries ==
  { [token |-> t, sandbox |-> sb] :
      t \in {Str("tok1")}, sb \in {Undef, Str("true"), Str("false")} }
  \cup { [token |-> Undef, sandbox |-> Str("true")] }

\* The boards endpoint's replies.
BoardReplies ==
  { [ok |-> TRUE, response |-> TRUE, message |-> "",
     data |-> JObject([items |-> Arr("b1,b2")])],
    [ok |-> TRUE, response |-> TRUE, message |-> "", data |-> JNull],
    [ok |-> FALSE, response |-> TRUE, message |-> "Request failed with status code 401",
     data |-> JObject([code |-> JNum("2"), message |-> Str("Authentication failed.")])],
    [ok |-> FALSE, response |-> FALSE, message |-> "Network Error", data |-> Undef] }

\* The bodies of the /api/generate-only requests that come between them: with
\* the sandbox on, with the sandbox off, and with no config.
SandboxBodies(r) ==
  { [title |-> Str("T" \o Decimal(r)), language |-> Str("en"), config |-> c] :
      c \in { JObject([openrouter_key |-> Str("k1"), pinterest_sandbox |-> JBool(TRUE)]),
              JObject([openrouter_key |-> Str("k1"), pinterest_sandbox |-> JBool(FALSE)]),
              Undef } }

ReceiveSandboxConfig(r) == \E b \in SandboxBodies(r) : HandleGenerateOnly(r, b)

ReceiveListBoards(r) == \E q \in BoardQueries : HandleListBoards(r, q)

NextBoards ==
  \E r \in Slots :
    \/ ReceiveSandboxConfig(r)
    \/ \E reply \in GenReplies : GenReply(r, reply)
    \/ ReceiveListBoards(r)
    \/ \E reply \in BoardReplies : BoardsReply(r, reply)

SpecBoards == Init /\ [][NextBoards]_vars

\* C18: the boards request of GET /api/list-boards goes to the sandbox base
\* URL when the request's own `sandbox` is 'true' and to the production base
\* URL otherwise, whatever the requests before it did.
C18_BoardsBaseUrl ==
  \A r \in Slots : \A i \in DOMAIN out[r] :
    req[r].route = "/api/list-boards" =>
      out[r][i].api =
        IF req[r].q.sandbox = Str("true")
        THEN "GET https://api-sandbox.pinterest.com/v5/boards"
        ELSE "GET https://api.pinterest.com/v5/boards"
(***************************************************************************)
(* generatePinContent, through POST /api/generate-only                     *)
(***************************************************************************)

\* The texts the completion comes back with: an object alone, in prose and
\* after a fence line; no braces; braces the wrong way round; braces around
\* what is no JSON; prose with braces of its own around an object; and no
\* text.
ContentTexts ==
  { Str("{\"title\":\"G\",\"description\":\"gd\",\"hashtags\":[\"g1\"],\"altText\":\"ga\"}"),
    Str("Sure, here it is: {\"title\":\"G\",\"description\":\"gd\"} Enjoy!"),
    Str("json\n{\"title\":\"G\"}\n"),
    Str("I cannot help with that"),
    Str("} nothing {"),
    Str("{\"title\":\"G\",}"),
    Str("{title: G}"),
    Str("Here {as asked}: {\"title\":\"G\"}"),
    JNull }

ContentReplies ==
  { [ok |-> TRUE, response |-> TRUE, message |-> "", data |-> Undef, content |-> c] :
      c \in ContentTexts }
  \cup
  { [ok |-> FALSE, response |-> FALSE, message |-> "Network Error", data |-> Undef,
     content |-> Undef] }

NextGenerate ==
  \E r \in Slots :
    \/ ReceiveGenerateOnly(r)
    \/ \E reply \in ContentReplies : GenReply(r, reply)

SpecGenerate == Init /\ [][NextGenerate]_vars

\* C19: generatePinContent makes one completion call.  When the text that
\* comes back holds a brace-delimited part (from its first "{" to its last
\* "}") that is valid JSON, the object parsed from it is the content
\* returned; when it holds no such part, or the part is not valid JSON, the
\* operation fails with the error 'Invalid JSON response from OpenRouter' and
\* returns no content.
C19_ExtractJSON ==
  \A r \in Slots :
    (req[r].route = "/api/generate-only" /\ out[r] # <<>>) =>
      /\ Len(out[r]) = 1
      /\ out[r][1].api = "POST https://openrouter.ai/api/v1/chat/completions"
      /\ (/\ req[r].pc # "awaitGen" /\ out[r][1].reply.ok
          /\ out[r][1].reply.content.t = "str") =>
           LET s == out[r][1].reply.content.v
               opens == {i \in 1..Len(s) : CharAt(s, i) = "{"}
               closes == {i \in 1..Len(s) : CharAt(s, i) = "}"}
               found == opens # {} /\ closes # {} /\ Min(opens) < Max(closes)
               parsed == IF found
                         THEN JSONParse(Utf8Bytes(SubSeq(s, Min(opens), Max(closes))))
                         ELSE ParseFail
           IN /\ Len(res[r]) = 1
              /\ IF parsed.ok
                 THEN /\ res[r][1].status = 200 /\ res[r][1].body.success
                      /\ res[r][1].body.seoContent = parsed.val
                 ELSE /\ res[r][1].status = 500 /\ ~res[r][1].body.success
                      /\ res[r][1].body.error = Str("Invalid JSON response from OpenRouter")
(***************************************************************************)
(* generateAndPostPin                                                      *)
(***************************************************************************)

\* What the promise of generateAndPostPin resolves to.
Resolve(value) == Send(0, "resolved", value)

cliFailure(message) == Resolve([success |-> FALSE, error |-> message])

\* path.join(outputDir, `pin_${timestamp}.jpg`) at the time t
outputPath(t) == "output/pin_" \o Decimal(t) \o ".jpg"

\* generatePosterImage(title, image1Path, image2Path, outputPath): the work
\* handed to the image library.
posterRequest(title, image1, image2, path) ==
  [api |-> "sharp", title |-> title, image1 |-> image1, image2 |-> image2,
   outputPath |-> path, reply |-> Pending]

\* The function up to its first await (lines 298-307), while process.env is e.
generateAndPostPin(options, e) ==
  Call(generateRequest(options.topic,
                       IF options.language = Undef THEN Str("en") ELSE options.language,
                       e),
       NoRecord)

\* A second step that composes the poster whether content was generated or not.
posterStepAlways(options, reply, t) ==
  Call(posterRequest(Str("Recipe"), options.image1, options.image2, outputPath(t)),
       [seoContent |-> JObject([title |-> Str("Recipe"), description |-> Str(""),
                                hashtags |-> Arr("recipe")]),
        imagePath |-> outputPath(t)])

\* The function from the generated content to its second await (lines
\* 307-323), at the time t: seoContent.description.substring and
\* seoContent.hashtags.join are TypeErrors, caught, when the content lacks them.
posterStep(options, reply, t) ==
  With(LAMBDA g :
         IF ~g.ok THEN cliFailure(g.message)
         ELSE IF Get(g.val, "description").t # "str" \/ Get(g.val, "hashtags").t # "arr"
           THEN cliFailure("TypeError")
         ELSE Call(posterRequest(Get(g.val, "title"), options.image1, options.image2,
                                 outputPath(t)),
                   [seoContent |-> g.val, imagePath |-> outputPath(t)]),
       generatePinContent(reply))

\* The function from the poster to its third await (lines 323-333), while
\* process.env is e and the directories hold f: title.toUpperCase() is a
\* TypeError, rethrown and caught, when the content has no title; the poster is
\* in its file when the library has written it.
pinStep(options, loc, reply, e, f) ==
  IF ~reply.ok THEN [o |-> cliFailure(reply.message), files |-> f]
  ELSE IF Get(loc.seoContent, "title").t # "str"
    THEN [o |-> cliFailure("TypeError"), files |-> f]
  ELSE With(LAMBDA f1 :
         With(LAMBDA c :
                [o |-> IF c.ok THEN Call(c.request, loc)
                       ELSE cliFailure(c.message),
                 files |-> f1],
              createPin([title |-> Get(loc.seoContent, "title"),
                         description |-> Get(loc.seoContent, "description"),
                         hashtags |-> Elements(Get(loc.seoContent, "hashtags")),
                         altText |-> Get(loc.seoContent, "altText"),
                         imagePath |-> loc.imagePath,
                         link |-> JSToString(options.link)], e, f1)),
         [n \in DOMAIN f \cup {loc.imagePath} |->
            IF n = loc.imagePath THEN reply.bytes ELSE f[n]])

\* The function from createPin's result on (lines 335-352).
resultStep(loc, reply) ==
  IF ~reply.ok THEN cliFailure(reply.message)
  ELSE IF reply.data.t \in {"undef", "null"} THEN cliFailure("TypeError")
  ELSE Resolve([success |-> TRUE,
                pinId |-> Get(reply.data, "id"),
                pinUrl |-> "https://pinterest.com/pin/" \o JSToString(Get(reply.data, "id")),
                seoContent |-> loc.seoContent,
                imagePath |-> loc.imagePath])

\* generateAndPostPin(options) is called.
CallGenerateAndPostPin(r, options) ==
  /\ req[r].pc = "idle"
  /\ Step(r, Arrived("generateAndPostPin", options, 0),
          generateAndPostPin(options, env), out, "awaitContent")
  /\ UNCHANGED <<env, lastSet, files, now, probe>>

\* The content service answers.
ContentReply(r, reply) ==
  /\ req[r].route = "generateAndPostPin" /\ req[r].pc = "awaitContent"
  /\ Step(r, req[r], posterStep(req[r].q, reply, now), Answered(r, reply), "awaitPoster")
  /\ UNCHANGED <<env, lastSet, files, now, probe>>

\* The image library is done with the poster.
PosterReply(r, reply) ==
  /\ req[r].route = "generateAndPostPin" /\ req[r].pc = "awaitPoster"
  /\ LET run == pinStep(req[r].q, req[r].loc, reply, env, files)
     IN /\ files' = run.files
        /\ Step(r, req[r], Stamp(run.o, lastSet), Answered(r, reply), "awaitCreate")
  /\ UNCHANGED <<env, lastSet, now, probe>>

\* The pins endpoint answers.
CreateReply(r, reply) ==
  /\ req[r].route = "generateAndPostPin" /\ req[r].pc = "awaitCreate"
  /\ Step(r, req[r], resultStep(req[r].loc, reply), Answered(r, reply), "none")
  /\ UNCHANGED <<env, lastSet, files, now, probe>>

\* The options of the calls.
PostOptions(r) ==
  { [topic |-> Str("cake " \o Decimal(r)), image1 |-> "a.jpg", image2 |-> "b.jpg",
     link |-> Str("https://a.io/cake"), language |-> l] : l \in {Undef, Str("fr")} }

\* The contents generated: whole, none, a failure, and contents that lack
\* the description or the title.
PostContents ==
  GenReplies \cup
  { [ok |-> TRUE, response |-> TRUE, message |-> "", data |-> Undef, content |-> Str(c)] :
      c \in { "{\"title\":\"G\"}",
              "{\"description\":\"gd\",\"hashtags\":[\"g1\"]}" } }

\* The image library's results: the poster, or the failure to read or decode
\* a source image.
PosterReplies ==
  { [ok |-> TRUE, message |-> "", bytes |-> Utf8Bytes("poster")],
    [ok |-> FALSE, message |-> "Input file is missing: a.jpg", bytes |-> <<>>] }

InitPost ==
  /\ env = DotEnv
  /\ lastSet = [token |-> 0, board |-> 0]
  /\ req = [r \in Slots |-> Idle]
  /\ out = [r \in Slots |-> <<>>]
  /\ res = [r \in Slots |-> <<>>]
  /\ thrown = [r \in Slots |-> ""]
  /\ files = [n \in {} |-> ""]
  /\ now = 0
  /\ probe = NoRecord

NextPost ==
  \E r \in Slots :
    \/ \E options \in PostOptions(r) : CallGenerateAndPostPin(r, options)
    \/ \E reply \in PostContents : ContentReply(r, reply)
    \/ \E reply \in PosterReplies : PosterReply(r, reply)
    \/ \E reply \in PinReplies : CreateReply(r, reply)

SpecPost == InitPost /\ [][NextPost]_vars

\* C20: generateAndPostPin generates the content, then composes the poster,
\* then creates the pin: the poster is composed only after the content was
\* generated, the pin is created only after the poster was written, a step
\* that fails is the last one, nothing is thrown, and the result is
\* {success: true, pinId, pinUrl, seoContent, imagePath} when the three steps
\* succeeded and {success: false, error} when one failed.
C20_StepsInOrder ==
  \A r \in Slots :
    req[r].route = "generateAndPostPin" =>
      LET calls == out[r]
          steps == << "POST https://openrouter.ai/api/v1/chat/completions", "sharp",
                      "POST https://api.pinterest.com/v5/pins" >>
          succeeded(i) == calls[i].reply # Pending /\ calls[i].reply.ok
          failed(i) == calls[i].reply # Pending /\ ~calls[i].reply.ok
      IN /\ thrown[r] = "" /\ req[r].pc # "crashed"
         /\ Len(calls) <= 3
         /\ \A i \in DOMAIN calls :
              /\ calls[i].api = steps[i]
              /\ i > 1 => succeeded(i - 1)
              /\ failed(i) => Len(calls) = i
         /\ Len(calls) >= 2 =>
              /\ generatePinContent(calls[1].reply).ok
         /\ Len(calls) = 3 =>
              /\ calls[2].outputPath \in DOMAIN files
              /\ calls[3].data = B64Encode(files[calls[2].outputPath])
         /\ Len(res[r]) <= 1
         /\ req[r].pc = "done" <=> Len(res[r]) = 1
         /\ Len(res[r]) = 1 =>
              LET value == res[r][1].body
              IN IF Len(calls) = 3 /\ succeeded(3)
                 THEN /\ DOMAIN value
                           = {"success", "pinId", "pinUrl", "seoContent", "imagePath"}
                      /\ value.success
                      /\ value.pinId = Get(calls[3].reply.data, "id")
                      /\ value.pinUrl = "https://pinterest.com/pin/" \o value.pinId.v
                      /\ value.seoContent = generatePinContent(calls[1].reply).val
                      /\ value.imagePath = calls[2].outputPath
                 ELSE /\ DOMAIN value = {"success", "error"}
                      /\ ~value.success

\* A call went through its three steps and resolved to the pin.
C20_Witness ==
  \E r \in Slots :
    /\ req[r].route = "generateAndPostPin" /\ req[r].pc = "done"
    /\ Len(out[r]) = 3 /\ out[r][3].reply.ok
    /\ res[r][1].body.success
    /\ res[r][1].body.imagePath \in DOMAIN files

(***************************************************************************)
(* Post-pin requests in flight together                                    *)
(***************************************************************************)

\* C21: a post-pin request that supplies a non-empty description and its own
\* token and board id never calls the content service, and the create-pin
\* call it makes carries exactly that token and that board id, other requests
\* in flight or not: the call is built in the run that merged the request's
\* configuration (it is there as soon as the request has been received, when
\* the link and the hashtags can be formed), so that a create-pin call of a
\* post-pin request that carries another token or board than the ones the
\* request named is that of a request without a description.
C21_OwnCredentials ==
  \A r \in Slots :
    LET b == req[r].q
        token == Get(b.config, "pinterest_token")
        board == Get(b.config, "pinterest_board")
        pins == {i \in DOMAIN out[r] :
                   out[r][i].api = "POST https://api.pinterest.com/v5/pins"}
        own(i) == /\ out[r][i].authorization = "Bearer " \o token.v
                  /\ out[r][i].board_id = board
                  /\ out[r][i].setBy = [token |-> r, board |-> r]
    IN (/\ req[r].route = "/api/post-pin" /\ req[r].pc # "idle"
        /\ token.t = "str" /\ Truthy(token) /\ token # Str("undefined")
        /\ board.t = "str" /\ Truthy(board)) =>
         /\ Truthy(b.description) =>
              /\ \A i \in DOMAIN out[r] : i \in pins /\ own(i)
              /\ Len(out[r]) <= 1
              /\ (b.websiteUrl.t = "str" /\ b.hashtags.t \in {"arr", "str"}) =>
                   Len(out[r]) = 1
         /\ (\E i \in pins : ~own(i)) => ~Truthy(b.description)

\* A request with a description has made its create-pin call with its own
\* token and board while another request, which named its own token and board
\* too but asked for generated content, made its call with this one's.
C21_Witness ==
  \E r \in Slots : \E s \in Slots \ {r} :
    /\ req[r].route = "/api/post-pin" /\ Truthy(req[r].q.description)
    /\ req[s].route = "/api/post-pin" /\ ~Truthy(req[s].q.description)
    /\ req[r].q.config = OwnConfig(r) /\ req[s].q.config = OwnConfig(s)
    /\ Len(out[r]) = 1
    /\ out[r][1].authorization = "Bearer " \o OwnToken(r)
    /\ out[r][1].board_id = Str(OwnBoard(r))
    /\ Len(out[s]) = 2
    /\ out[s][2].authorization = "Bearer " \o OwnToken(r)

\* C22: the image a post-pin request submits is the image of that request's
\* imageData, other post-pin requests in flight or not: the data of its
\* create-pin call are the bytes its imageData decodes to, in base64 again.
C22_OwnImage ==
  \A r \in Slots : \A i \in DOMAIN out[r] :
    (/\ req[r].route = "/api/post-pin"
     /\ out[r][i].api = "POST https://api.pinterest.com/v5/pins") =>
      LET imageData == req[r].q.imageData.v
          prefix == "data:image/jpeg;base64,"
          base64Data == IF StartsWith(imageData, prefix)
                        THEN SubSeq(imageData, Len(prefix) + 1, Len(imageData))
                        ELSE imageData
      IN out[r][i].data = B64Encode(B64Decode(base64Data))

(***************************************************************************)
(* The content of a pin, one post-pin request at a time                    *)
(***************************************************************************)

\* The bodies of post-pin requests that differ in the content they supply:
\* a title, a description, hashtags (as text or as an array) and an alt
\* text, each present, empty or left out.
SelectBodies(r) ==
  { [imageData |-> Str("data:image/jpeg;base64," \o B64Encode(OwnImage(r))),
     title |-> title, description |-> description, hashtags |-> hashtags,
     altText |-> altText, websiteUrl |-> Str("example.com"), config |-> OwnConfig(r)] :
      title \in {Str("T"), Str(""), Undef},
      description \in {Str("D"), Str(""), Undef},
      hashtags \in {Str("a, b"), Arr("a,b"), Undef},
      altText \in {Str("alt"), Undef} }

\* The content service's replies: the four fields, the hashtags as one text,
\* neither title nor alt text, and a failure.
SelectContents ==
  { [ok |-> TRUE, response |-> TRUE, message |-> "", data |-> Undef,
     content |-> Str(c)] :
      c \in { "{\"title\":\"G\",\"description\":\"gd\","
                \o "\"hashtags\":[\"g1\",\"g2\"],\"altText\":\"ga\"}",
              "{\"title\":\"G\",\"description\":\"gd\","
                \o "\"hashtags\":\"g1, g2\",\"altText\":\"ga\"}",
              "{\"description\":\"gd\",\"hashtags\":[\"g1\"]}" } }
  \cup
  { [ok |-> FALSE, response |-> FALSE, message |-> "Network Error", data |-> Undef,
     content |-> Undef] }

\* A post-pin request arrives while no other request has.
ReceiveSelect(r) ==
  /\ \A s \in Slots : req[s].pc = "idle"
  /\ \E b \in SelectBodies(r) : HandlePostPin(r, b)

NextSelect ==
  \E r \in Slots :
    \/ ReceiveSelect(r)
    \/ \E reply \in SelectContents : GenReply(r, reply)
    \/ \E reply \in PinReplies : PinReply(r, reply)

SpecSelect == Init /\ [][NextSelect]_vars

=============================================================================
